---- MODULE Spec2Model ----
(***************************************************************************)
(* A model of libavcodec/pngenc.c (PNG / APNG encoder).                    *)
(*                                                                         *)
(* Rasters are byte arrays addressed as the C code addresses them: the     *)
(* byte at C offset o of a plane is data[o + 1].  Three specifications     *)
(* share the module:                                                       *)
(*   Spec        the APNG sequencer (encode_apng / apng_encode_frame),     *)
(*   SpecBlend   apng_do_inverse_blend applied to drawn rasters,           *)
(*   SpecFilter  the scanline loop of encode_frame / png_choose_filter.    *)
(***************************************************************************)
EXTENDS Integers, Sequences, FiniteSets, TLC

VARIABLES
    avctx,      \* AVCodecContext fields the encoder reads: pix_fmt, frame_number
    s,          \* PNGEncContext
    call,       \* locals of the encode_apng / apng_encode_frame call in progress
    pkt,        \* the AVPacket handed to the call in progress / last returned
    env,        \* the caller: colours it draws rasters from, frames fed, flushed
    dec,        \* a reference APNG decoder fed with every returned packet
    obs,        \* what the caller saw of the last call and of the stream so far
    bl,         \* SpecBlend: the drawn arguments and the result
    fl,         \* SpecFilter: the drawn raster, the loop position, the rows written
    zs,         \* SpecDeflate: the position of an encode call among its deflate calls
    wr          \* SpecChunk: the bytes written so far and the chunk written last

vars == <<avctx, s, call, pkt, env, dec, obs, bl, fl, zs, wr>>

----------------------------------------------------------------------------
(* Bounds of the model                                                     *)

StripWidth == 3
MaxFrames == 3
MaxBlocks == 1
PaletteSize == 2
BlendWidth == 2
BlendHeight == 2
RowWidth == 2
RowCount == 3

----------------------------------------------------------------------------
(* Bytes and words                                                         *)

Min(a, b) == IF a < b THEN a ELSE b
Max(a, b) == IF a > b THEN a ELSE b

\* uint8_t arithmetic: dst[i] = src[i] - p
U8(x) == x % 256

\* (int8_t) b
Int8(b) == IF b >= 128 THEN b - 256 ELSE b

Abs(x) == IF x < 0 THEN -x ELSE x

Zeros(n) == [i \in 1..n |-> 0]

\* memcpy(dst + doff, src, Len(src))
memcpy(dst, doff, src) ==
    [i \in 1..Len(dst) |->
        IF i > doff /\ i <= doff + Len(src) THEN src[i - doff] ELSE dst[i]]

\* the n bytes at C offset off
BytesAt(data, off, n) == SubSeq(data, off + 1, off + n)

\* memset(dst + doff, 0, n)
memset0(dst, doff, n) == memcpy(dst, doff, Zeros(n))

----------------------------------------------------------------------------
(* Pixel formats (png_enc_init)                                            *)

PNG_COLOR_TYPE_GRAY == 0
PNG_COLOR_TYPE_RGB == 2
PNG_COLOR_TYPE_PALETTE == 3
PNG_COLOR_TYPE_GRAY_ALPHA == 4
PNG_COLOR_TYPE_RGB_ALPHA == 6

PixFmts ==
    {"RGBA64BE", "RGB48BE", "RGBA", "RGB24", "GRAY16BE", "GRAY8", "GRAY8A",
     "YA16BE", "MONOBLACK", "PAL8"}

bit_depth(pix_fmt) ==
    CASE pix_fmt \in {"RGBA64BE", "RGB48BE", "GRAY16BE", "YA16BE"} -> 16
      [] pix_fmt \in {"RGBA", "RGB24", "GRAY8", "GRAY8A", "PAL8"} -> 8
      [] pix_fmt = "MONOBLACK" -> 1

color_type(pix_fmt) ==
    CASE pix_fmt \in {"RGBA64BE", "RGBA"} -> PNG_COLOR_TYPE_RGB_ALPHA
      [] pix_fmt \in {"RGB48BE", "RGB24"} -> PNG_COLOR_TYPE_RGB
      [] pix_fmt \in {"GRAY16BE", "GRAY8", "MONOBLACK"} -> PNG_COLOR_TYPE_GRAY
      [] pix_fmt \in {"GRAY8A", "YA16BE"} -> PNG_COLOR_TYPE_GRAY_ALPHA
      [] pix_fmt = "PAL8" -> PNG_COLOR_TYPE_PALETTE

ff_png_get_nb_channels(ct) ==
    CASE ct = PNG_COLOR_TYPE_GRAY -> 1
      [] ct = PNG_COLOR_TYPE_PALETTE -> 1
      [] ct = PNG_COLOR_TYPE_GRAY_ALPHA -> 2
      [] ct = PNG_COLOR_TYPE_RGB -> 3
      [] ct = PNG_COLOR_TYPE_RGB_ALPHA -> 4

bits_per_pixel(pix_fmt) ==
    ff_png_get_nb_channels(color_type(pix_fmt)) * bit_depth(pix_fmt)

\* uint8_t bpp = (s->bits_per_pixel + 7) >> 3
apng_bpp(pix_fmt) == (bits_per_pixel(pix_fmt) + 7) \div 8

\* bytes of one raster row: (width * bits_per_pixel + 7) >> 3
row_size_of(pix_fmt, width) == (width * bits_per_pixel(pix_fmt) + 7) \div 8

----------------------------------------------------------------------------
(* Rasters (AVFrame)                                                       *)

\* The bytes of one line that the encoder addresses.  apng_do_inverse_blend
\* addresses bpp * width bytes of every line, which for MONOBLACK is more
\* than the row_size bytes the pixels occupy; the bytes after them are the
\* line's alignment padding.
LineSize(pix_fmt, width) ==
    Max(row_size_of(pix_fmt, width), apng_bpp(pix_fmt) * width)

Frame(pix_fmt, width, height, data, palette) ==
    [format |-> pix_fmt, width |-> width, height |-> height,
     linesize |-> LineSize(pix_fmt, width), data |-> data, palette |-> palette]

NoPalette == << >>

\* The pixel at (x, y) as the format defines it: bpp bytes, or one bit.
PixelAt(fr, x, y) ==
    IF fr.format = "MONOBLACK"
    THEN (fr.data[fr.linesize * y + (x \div 8) + 1] \div (2 ^ (7 - (x % 8)))) % 2
    ELSE BytesAt(fr.data, fr.linesize * y + apng_bpp(fr.format) * x,
                 apng_bpp(fr.format))

----------------------------------------------------------------------------
(* Frame control chunk (APNGFctlChunk)                                     *)

APNG_DISPOSE_OP_NONE == 0
APNG_DISPOSE_OP_BACKGROUND == 1
APNG_DISPOSE_OP_PREVIOUS == 2
APNG_BLEND_OP_SOURCE == 0
APNG_BLEND_OP_OVER == 1

\* APNGFctlChunk fctl_chunk = {0}
ZeroFctl ==
    [sequence_number |-> 0, width |-> 0, height |-> 0, x_offset |-> 0,
     y_offset |-> 0, delay_num |-> 0, delay_den |-> 0, dispose_op |-> 0,
     blend_op |-> 0]

----------------------------------------------------------------------------
(* Palettes: PaletteSize entries of four bytes in memory order (little     *)
(* endian), so that entry[4] is the alpha byte, palette[i] >> 24.          *)

PaletteAlpha(palette, index) == palette[index + 1][4]

\* for (i = 0; i < 256; ++i) if (palette[i] >> 24 == 0) break;
RECURSIVE find_transparent_palette_index(_, _)
find_transparent_palette_index(palette, i) ==
    IF i >= PaletteSize THEN i
    ELSE IF PaletteAlpha(palette, i) = 0 THEN i
    ELSE find_transparent_palette_index(palette, i + 1)

----------------------------------------------------------------------------
(* apng_do_inverse_blend                                                   *)

\* the four "if" updates of the bounding-box scan for a differing pixel
bbox_update(box, x, y) ==
    [leftmost_x   |-> IF x < box.leftmost_x THEN x ELSE box.leftmost_x,
     rightmost_x  |-> IF x >= box.rightmost_x THEN x + 1 ELSE box.rightmost_x,
     topmost_y    |-> IF y < box.topmost_y THEN y ELSE box.topmost_y,
     bottommost_y |-> IF y >= box.bottommost_y THEN y + 1 ELSE box.bottommost_y]

\* "Find bounding box of changes": both loops, in raster order
RECURSIVE bbox_scan(_, _, _, _, _, _)
bbox_scan(output, input, bpp, y, x, box) ==
    IF y >= input.height THEN box
    ELSE IF x >= input.width THEN bbox_scan(output, input, bpp, y + 1, 0, box)
    ELSE IF BytesAt(input.data, input.linesize * y + bpp * x, bpp)
            = BytesAt(output.data, output.linesize * y + bpp * x, bpp)
         THEN bbox_scan(output, input, bpp, y, x + 1, box)
         ELSE bbox_scan(output, input, bpp, y, x + 1, bbox_update(box, x, y))

\* empty_frame_fix leaving the empty box as the scan returned it
empty_frame_fix_none(box, input_width) == box

\* "Empty frame": APNG does not support empty frames, so make it 1x1
empty_frame_fix(box, input_width) ==
    IF box.leftmost_x = input_width /\ box.rightmost_x = 0
    THEN [leftmost_x |-> 0, topmost_y |-> 0, rightmost_x |-> 1, bottommost_y |-> 1]
    ELSE box

find_bbox(output, input, bpp) ==
    empty_frame_fix(
        bbox_scan(output, input, bpp, 0, 0,
                  [leftmost_x |-> input.width, rightmost_x |-> 0,
                   topmost_y |-> input.height, bottommost_y |-> 0]),
        input.width)

\* APNG_BLEND_OP_SOURCE: one memcpy per row of the box, into the top rows
RECURSIVE blend_source_rows(_, _, _, _, _, _)
blend_source_rows(data, out_linesize, input, bpp, box, y) ==
    IF y >= box.bottommost_y THEN data
    ELSE blend_source_rows(
            memcpy(data, out_linesize * (y - box.topmost_y),
                   BytesAt(input.data,
                           input.linesize * y + bpp * box.leftmost_x,
                           bpp * (box.rightmost_x - box.leftmost_x))),
            out_linesize, input, bpp, box, y + 1)

\* over_special_alpha asking for both special values: an opaque
\* foreground over a transparent background
over_special_alpha_both(format, foreground, background, palette) ==
    CASE format = "RGBA64BE" ->
            (foreground[7] = 255 /\ foreground[8] = 255)
            /\ (background[7] = 0 /\ background[8] = 0)
      [] format = "YA16BE" ->
            (foreground[3] = 255 /\ foreground[4] = 255)
            /\ (background[3] = 0 /\ background[4] = 0)
      [] format = "RGBA" -> foreground[4] = 255 /\ background[4] = 0
      [] format = "GRAY8A" -> foreground[2] = 255 /\ background[2] = 0
      [] format = "PAL8" ->
            PaletteAlpha(palette, foreground[1]) = 255
            /\ PaletteAlpha(palette, background[1]) = 0

\* the inner switch: alpha of the foreground at its maximum, or of the
\* background zero
over_special_alpha(format, foreground, background, palette) ==
    CASE format = "RGBA64BE" ->
            (foreground[7] = 255 /\ foreground[8] = 255)
            \/ (background[7] = 0 /\ background[8] = 0)
      [] format = "YA16BE" ->
            (foreground[3] = 255 /\ foreground[4] = 255)
            \/ (background[3] = 0 /\ background[4] = 0)
      [] format = "RGBA" -> foreground[4] = 255 \/ background[4] = 0
      [] format = "GRAY8A" -> foreground[2] = 255 \/ background[2] = 0
      [] format = "PAL8" ->
            PaletteAlpha(palette, foreground[1]) = 255
            \/ PaletteAlpha(palette, background[1]) = 0

\* APNG_BLEND_OP_OVER: the pixel loop.  The background is read from the
\* buffer the sub-image is being written into.
RECURSIVE blend_over_pixels(_, _, _, _, _, _, _, _)
blend_over_pixels(data, out_linesize, input, bpp, box, tpi, y, x) ==
    IF y >= box.bottommost_y THEN [ret |-> 0, data |-> data]
    ELSE IF x >= box.rightmost_x
    THEN blend_over_pixels(data, out_linesize, input, bpp, box, tpi,
                           y + 1, box.leftmost_x)
    ELSE
      LET foreground == BytesAt(input.data, input.linesize * y + bpp * x, bpp)
          background == BytesAt(data, out_linesize * y + bpp * x, bpp)
          output_off == out_linesize * (y - box.topmost_y)
                        + bpp * (x - box.leftmost_x)
      IN  IF foreground = background
          THEN IF input.format = "PAL8"
               THEN IF tpi = PaletteSize
                    THEN [ret |-> -1, data |-> data]
                    ELSE blend_over_pixels(memcpy(data, output_off, <<tpi>>),
                                           out_linesize, input, bpp, box, tpi,
                                           y, x + 1)
               ELSE blend_over_pixels(memset0(data, output_off, bpp),
                                      out_linesize, input, bpp, box, tpi,
                                      y, x + 1)
          ELSE IF over_special_alpha(input.format, foreground, background,
                                     input.palette)
               THEN blend_over_pixels(memcpy(data, output_off, foreground),
                                      out_linesize, input, bpp, box, tpi,
                                      y, x + 1)
               ELSE [ret |-> -1, data |-> data]

\* the outer switch of the OVER branch
over_has_alpha(format) ==
    format \in {"RGBA64BE", "YA16BE", "RGBA", "GRAY8A", "PAL8"}

apng_do_inverse_blend(output, input, fctl_chunk, bpp) ==
    LET box == find_bbox(output, input, bpp)
        r == IF fctl_chunk.blend_op = APNG_BLEND_OP_SOURCE
             THEN [ret |-> 0,
                   data |-> blend_source_rows(output.data, output.linesize,
                                              input, bpp, box, box.topmost_y)]
             ELSE IF ~over_has_alpha(input.format)
             THEN [ret |-> -1, data |-> output.data]
             ELSE blend_over_pixels(
                     output.data, output.linesize, input, bpp, box,
                     IF input.format = "PAL8"
                     THEN find_transparent_palette_index(input.palette, 0)
                     ELSE 0,
                     box.topmost_y, box.leftmost_x)
    IN  IF r.ret < 0
        THEN [ret |-> -1, output |-> [output EXCEPT !.data = r.data],
              fctl_chunk |-> fctl_chunk]
        ELSE [ret |-> 0,
              output |-> [output EXCEPT
                            !.data = r.data,
                            !.width = box.rightmost_x - box.leftmost_x,
                            !.height = box.bottommost_y - box.topmost_y],
              fctl_chunk |-> [fctl_chunk EXCEPT
                            !.width = box.rightmost_x - box.leftmost_x,
                            !.height = box.bottommost_y - box.topmost_y,
                            !.x_offset = box.leftmost_x,
                            !.y_offset = box.topmost_y]]

----------------------------------------------------------------------------
(* Rasters the caller can supply                                           *)

\* Pixel values a stream is drawn from, per format: every raster of one
\* stream (or one inverse-blend call) uses the two colours of one set.
ColourSets(pix_fmt) ==
    CASE pix_fmt = "GRAY8" -> {{<<0>>, <<7>>}}
      [] pix_fmt = "RGB24" -> {{<<0, 0, 0>>, <<9, 8, 7>>}}
      [] pix_fmt = "GRAY8A" ->
            {{<<0, 0>>, <<1, 0>>}, {<<0, 0>>, <<1, 255>>},
             {<<1, 128>>, <<1, 255>>}, {<<1, 0>>, <<2, 128>>}}
      [] pix_fmt = "RGBA" ->
            {{<<0, 0, 0, 0>>, <<3, 2, 1, 255>>},
             {<<3, 2, 1, 128>>, <<4, 2, 1, 0>>}}
      [] pix_fmt = "YA16BE" ->
            {{<<0, 1, 255, 255>>, <<0, 2, 0, 0>>},
             {<<0, 1, 255, 0>>, <<0, 1, 255, 255>>}}
      [] pix_fmt = "PAL8" -> {{<<0>>, <<1>>}}
      [] pix_fmt = "MONOBLACK" -> {{0, 1}}

\* Three palettes.  PalA has a fully transparent entry; PalB differs from
\* PalA by a multiple of the CRC-32 generator polynomial (bytes 41 06 71 DB
\* 01) and so has PalA's checksum; PalC is fully opaque.
PadPalette(p) ==
    [i \in 1..PaletteSize |-> IF i <= Len(p) THEN p[i] ELSE <<0, 0, 0, 255>>]

PalA == PadPalette(<< <<0, 0, 0, 255>>, <<0, 0, 0, 0>> >>)
PalB == PadPalette(<< <<65, 6, 113, 36>>, <<1, 0, 0, 0>> >>)
PalC == PadPalette(<< <<0, 0, 0, 255>>, <<0, 0, 0, 255>> >>)

Palettes(pix_fmt) == IF pix_fmt = "PAL8" THEN {PalA, PalB, PalC} ELSE {NoPalette}

\* bytes left in a line's padding by whoever allocated it
PadBytes == {0, 170}

RECURSIVE PackBits(_, _, _, _)
PackBits(px, y, width, x) ==
    IF x >= width \/ x % 8 = 7 THEN
        (IF x < width THEN px[y * width + x + 1] ELSE 0)
    ELSE (IF x < width THEN px[y * width + x + 1] * 2 ^ (7 - (x % 8)) ELSE 0)
         + PackBits(px, y, width, x + 1)

\* the byte at offset i of line y of a raster whose pixels, in raster order,
\* are px
LineByte(pix_fmt, width, px, pad, y, i) ==
    IF pix_fmt = "MONOBLACK"
    THEN IF i < row_size_of(pix_fmt, width)
         THEN PackBits(px, y, width, 8 * i)
         ELSE pad
    ELSE px[y * width + (i \div apng_bpp(pix_fmt)) + 1][(i % apng_bpp(pix_fmt)) + 1]

RasterData(pix_fmt, width, height, px, pad) ==
    [k \in 1..(LineSize(pix_fmt, width) * height) |->
        LineByte(pix_fmt, width, px, pad,
                 (k - 1) \div LineSize(pix_fmt, width),
                 (k - 1) % LineSize(pix_fmt, width))]

Rasters(pix_fmt, width, height, colours, palette) ==
    { Frame(pix_fmt, width, height,
            RasterData(pix_fmt, width, height, px, pad), palette) :
        px \in [1..(width * height) -> colours],
        pad \in IF pix_fmt = "MONOBLACK" THEN PadBytes ELSE {0} }

----------------------------------------------------------------------------
(* A reference APNG decoder                                                *)

\* alpha of a pixel is zero: the pixel is fully transparent
PixelTransparent(format, px, palette) ==
    CASE format = "RGBA64BE" -> px[7] = 0 /\ px[8] = 0
      [] format = "YA16BE" -> px[3] = 0 /\ px[4] = 0
      [] format = "RGBA" -> px[4] = 0
      [] format = "GRAY8A" -> px[2] = 0
      [] format = "PAL8" -> PaletteAlpha(palette, px[1]) = 0
      [] OTHER -> FALSE

\* one pixel of a sub-image put on the canvas pixel under it
BlendPixel(format, blend_op, sub_px, canvas_px, palette) ==
    IF blend_op = APNG_BLEND_OP_OVER /\ PixelTransparent(format, sub_px, palette)
    THEN canvas_px
    ELSE sub_px

\* The canvas, as the pixels PixelAt gives, after the sub-image of
\* fctl.width x fctl.height pixels held in the top-left corner of sub is
\* rendered at (fctl.x_offset, fctl.y_offset).
ComposedPixel(canvas, sub, fctl, x, y) ==
    IF /\ x >= fctl.x_offset /\ x < fctl.x_offset + fctl.width
       /\ y >= fctl.y_offset /\ y < fctl.y_offset + fctl.height
    THEN BlendPixel(canvas.format, fctl.blend_op,
                    PixelAt(sub, x - fctl.x_offset, y - fctl.y_offset),
                    PixelAt(canvas, x, y), canvas.palette)
    ELSE PixelAt(canvas, x, y)

PixelGrid(fr) == (0..(fr.width - 1)) \X (0..(fr.height - 1))

\* the pixels at which two rasters of one size differ
DiffPixels(a, b) ==
    {p \in PixelGrid(a) : PixelAt(a, p[1], p[2]) # PixelAt(b, p[1], p[2])}

----------------------------------------------------------------------------
(* SpecBlend: apng_do_inverse_blend on drawn arguments                     *)

BlendFormats == {"GRAY8", "GRAY8A", "RGBA", "YA16BE", "PAL8", "MONOBLACK"}

BlendArgs ==
    UNION { UNION { UNION {
        { [output |-> b, input |-> f, blend_op |-> op] :
            b \in Rasters(pf, BlendWidth, BlendHeight, cs, pal),
            f \in Rasters(pf, BlendWidth, BlendHeight, cs, pal),
            op \in {APNG_BLEND_OP_SOURCE, APNG_BLEND_OP_OVER} }
        : pal \in Palettes(pf) } : cs \in ColourSets(pf) } : pf \in BlendFormats }

BlendIdle == [phase |-> "off"]
FilterIdle == [phase |-> "off"]
SeqIdle == [phase |-> "off"]
DeflateIdle == [phase |-> "off"]
ChunkIdle == [phase |-> "off"]

InitBlend ==
    /\ bl \in { [phase |-> "drawn", output |-> a.output, input |-> a.input,
                 blend_op |-> a.blend_op] : a \in BlendArgs }
    /\ fl = FilterIdle
    /\ zs = DeflateIdle
    /\ wr = ChunkIdle
    /\ avctx = SeqIdle /\ s = SeqIdle /\ call = SeqIdle /\ pkt = SeqIdle
    /\ env = SeqIdle /\ dec = SeqIdle /\ obs = SeqIdle

\* the call apng_do_inverse_blend(diffFrame, pict, &fctl_chunk, bpp)
BlendCall ==
    /\ bl.phase = "drawn"
    /\ LET r == apng_do_inverse_blend(
                    bl.output, bl.input,
                    [ZeroFctl EXCEPT !.blend_op = bl.blend_op],
                    apng_bpp(bl.input.format))
       IN bl' = [phase |-> "done", output |-> bl.output, input |-> bl.input,
                 blend_op |-> bl.blend_op, ret |-> r.ret,
                 result |-> r.output, fctl_chunk |-> r.fctl_chunk]
    /\ UNCHANGED <<avctx, s, call, pkt, env, dec, obs, fl, zs, wr>>

NextBlend == BlendCall

SpecBlend == InitBlend /\ [][NextBlend]_vars

----------------------------------------------------------------------------
(* Claims about apng_do_inverse_blend (SpecBlend)                          *)

SetMin(S) == CHOOSE m \in S : \A n \in S : m <= n
SetMax(S) == CHOOSE m \in S : \A n \in S : m >= n

BlendDone == bl.phase = "done" /\ bl.ret = 0

\* C5: whenever inverse-blend succeeds, rendering the sub-image it left in
\* the top-left corner of the background buffer onto the original
\* background, at the returned offsets and under the blend mode asked for,
\* gives the foreground pixel for pixel.
C5_BlendReproducesForeground ==
    BlendDone =>
        \A p \in PixelGrid(bl.input) :
            ComposedPixel(bl.output, bl.result, bl.fctl_chunk, p[1], p[2])
                = PixelAt(bl.input, p[1], p[2])

\* C6: whenever inverse-blend succeeds on rasters that differ somewhere, the
\* rectangle it returns is, in pixels, the smallest rectangle holding every
\* differing pixel.
C6_BoundingBoxIsSmallestRectangle ==
    (BlendDone /\ DiffPixels(bl.input, bl.output) # {}) =>
        LET xs == {p[1] : p \in DiffPixels(bl.input, bl.output)}
            ys == {p[2] : p \in DiffPixels(bl.input, bl.output)}
        IN  /\ bl.fctl_chunk.x_offset = SetMin(xs)
            /\ bl.fctl_chunk.y_offset = SetMin(ys)
            /\ bl.fctl_chunk.width = SetMax(xs) - SetMin(xs) + 1
            /\ bl.fctl_chunk.height = SetMax(ys) - SetMin(ys) + 1

----------------------------------------------------------------------------
(***************************************************************************)
(* CRC-32 (av_crc with AV_CRC_32_IEEE_LE).  A 32-bit register is kept as   *)
(* the pair <<high 16 bits, low 16 bits>>                                  *)
(***************************************************************************)

XorBit(a, b, i) == (((a \div (2 ^ i)) + (b \div (2 ^ i))) % 2) * (2 ^ i)

Xor16(a, b) ==
    XorBit(a, b, 0) + XorBit(a, b, 1) + XorBit(a, b, 2) + XorBit(a, b, 3)
    + XorBit(a, b, 4) + XorBit(a, b, 5) + XorBit(a, b, 6) + XorBit(a, b, 7)
    + XorBit(a, b, 8) + XorBit(a, b, 9) + XorBit(a, b, 10) + XorBit(a, b, 11)
    + XorBit(a, b, 12) + XorBit(a, b, 13) + XorBit(a, b, 14) + XorBit(a, b, 15)

\* 0xEDB88320, the reflected IEEE polynomial, as <<0xEDB8, 0x8320>>
CrcPoly == <<60856, 33568>>

\* crc = (crc >> 1) ^ (crc & 1 ? 0xEDB88320 : 0)
CrcShift(crc) ==
    LET hi == crc[1] \div 2
        lo == (crc[2] \div 2) + (crc[1] % 2) * 32768
    IN  IF crc[2] % 2 = 1
        THEN <<Xor16(hi, CrcPoly[1]), Xor16(lo, CrcPoly[2])>>
        ELSE <<hi, lo>>

\* Recursive calls are handed values bound by a set constructor, so that each
\* intermediate register is computed once.
RECURSIVE CrcShifts(_, _)
CrcShifts(crc, n) ==
    IF n = 0 THEN crc
    ELSE CHOOSE r \in {CrcShifts(c, n - 1) : c \in {CrcShift(crc)}} : TRUE

CrcByte(crc, byte) == CrcShifts(<<crc[1], Xor16(crc[2], byte)>>, 8)

RECURSIVE av_crc(_, _, _)
av_crc(crc, buf, i) ==
    IF i > Len(buf) THEN crc
    ELSE CHOOSE r \in {av_crc(c, buf, i + 1) : c \in {CrcByte(crc, buf[i])}} : TRUE

RECURSIVE Flatten(_)
Flatten(seqs) == IF seqs = << >> THEN << >> ELSE Head(seqs) \o Flatten(Tail(seqs))

\* ~av_crc(av_crc_get_table(AV_CRC_32_IEEE_LE), ~0U, pict->data[1],
\*         256 * sizeof(uint32_t))
palette_crc(palette) ==
    LET c == av_crc(<<65535, 65535>>, Flatten(palette), 1)
    IN  <<65535 - c[1], 65535 - c[2]>>

----------------------------------------------------------------------------
(* Output buffers.  A buffer is held as the chunks written into it, each   *)
(* with the byte offset it starts at; a pointer is a buffer name and a     *)
(* byte offset.                                                            *)

IOBUF_SIZE == 4096
AV_INPUT_BUFFER_MIN_SIZE == 16384

NullPtr == [buf |-> "NULL", pos |-> 0]
NullFrame == [format |-> "NULL"]
NoSeq == << >>

\* PNGSIG of png.h, as AV_WB64 lays it out
PNGSIG == <<137, 80, 78, 71, 13, 10, 26, 10>>

\* bytes an entry of a buffer occupies: the signature as it is; for a chunk
\* the length field, tag, payload and CRC
ChunkBytes(c) == IF c.tag = "PNGSIG" THEN Len(PNGSIG) ELSE 12 + c.length

\* the chunks of a buffer left whole after chunk c is written over it
PutChunk(chunks, c) ==
    LET Before(o) == o.at + ChunkBytes(o) <= c.at
        After(o) == o.at >= c.at + ChunkBytes(c)
    IN  SelectSeq(chunks, Before) \o <<c>> \o SelectSeq(chunks, After)

\* the buffer a pointer of the context points into
BufferOf(st, ptr) ==
    CASE ptr.buf = "last_frame_packet" -> st.last_frame_packet
      [] ptr.buf = "temp_bytestream" -> st.temp_bytestream
      [] ptr.buf = "extra_data" -> st.extra_data
      [] ptr.buf = "pkt_data" -> st.pkt_data

WithBuffer(st, ptr, chunks) ==
    CASE ptr.buf = "last_frame_packet" -> [st EXCEPT !.last_frame_packet = chunks]
      [] ptr.buf = "temp_bytestream" -> [st EXCEPT !.temp_bytestream = chunks]
      [] ptr.buf = "extra_data" -> [st EXCEPT !.extra_data = chunks]
      [] ptr.buf = "pkt_data" -> [st EXCEPT !.pkt_data = chunks]

\* png_write_chunk(&s->bytestream, tag, buf, length)
png_write_chunk(st, tag, buf, length) ==
    LET c == [at |-> st.bytestream.pos, tag |-> tag, length |-> length,
              sequence_number |-> NoSeq, data |-> buf]
        w == WithBuffer(st, st.bytestream, PutChunk(BufferOf(st, st.bytestream), c))
    IN  [w EXCEPT !.bytestream.pos = @ + ChunkBytes(c)]

\* png_write_image_data without the test of line 250: every image-data
\* chunk is an fdAT
png_write_image_data_always_fdat(st, frame_number, buf, length) ==
    LET c == [at |-> st.bytestream.pos, tag |-> "fdAT",
              length |-> length + 4,
              sequence_number |-> <<st.sequence_number>>, data |-> buf]
        w == WithBuffer(st, st.bytestream,
                        PutChunk(BufferOf(st, st.bytestream), c))
    IN  [w EXCEPT !.bytestream.pos = @ + ChunkBytes(c),
                  !.sequence_number = @ + 1]

\* png_write_image_data with the "++s->sequence_number" of line 267 left out
png_write_image_data_no_increment(st, frame_number, buf, length) ==
    IF frame_number = 0
    THEN png_write_chunk(st, "IDAT", buf, length)
    ELSE LET c == [at |-> st.bytestream.pos, tag |-> "fdAT",
                   length |-> length + 4,
                   sequence_number |-> <<st.sequence_number>>, data |-> buf]
             w == WithBuffer(st, st.bytestream,
                             PutChunk(BufferOf(st, st.bytestream), c))
         IN  [w EXCEPT !.bytestream.pos = @ + ChunkBytes(c)]

\* png_write_image_data, for the APNG codec
png_write_image_data(st, frame_number, buf, length) ==
    IF frame_number = 0
    THEN png_write_chunk(st, "IDAT", buf, length)
    ELSE LET c == [at |-> st.bytestream.pos, tag |-> "fdAT",
                   length |-> length + 4,
                   sequence_number |-> <<st.sequence_number>>, data |-> buf]
             w == WithBuffer(st, st.bytestream,
                             PutChunk(BufferOf(st, st.bytestream), c))
         IN  [w EXCEPT !.bytestream.pos = @ + ChunkBytes(c),
                       !.sequence_number = @ + 1]

----------------------------------------------------------------------------
(* encode_headers                                                          *)

\* has_alpha of the palette loop
PaletteHasAlpha(palette) ==
    \E i \in 0..(PaletteSize - 1) : PaletteAlpha(palette, i) # 255

\* The frames of the model carry no stereo side data and unspecified colour
\* primaries and transfer characteristic, so IHDR and pHYs are followed by
\* the palette chunks only.
encode_headers(st, avctx_, pict) ==
    LET s1 == png_write_chunk(st, "IHDR",
                  [width |-> avctx_.width, height |-> avctx_.height,
                   bit_depth |-> bit_depth(avctx_.pix_fmt),
                   color_type |-> color_type(avctx_.pix_fmt)], 13)
        s2 == png_write_chunk(s1, "pHYs", << >>, 9)
    IN  IF color_type(avctx_.pix_fmt) = PNG_COLOR_TYPE_PALETTE
        THEN LET s3 == png_write_chunk(s2, "PLTE", pict.palette, 256 * 3)
             IN  IF PaletteHasAlpha(pict.palette)
                 THEN png_write_chunk(s3, "tRNS", pict.palette, 256)
                 ELSE s3
        ELSE s2

----------------------------------------------------------------------------
(* encode_frame.  The compressor is outside the source: what it makes of   *)
(* the rows of an image is a stream of zlen bytes whose content is held    *)
(* as the image it inflates to.                                            *)

\* the rows of the width x height image in the top-left corner of a raster
ImageRows(fr) ==
    [y \in 1..fr.height |->
        BytesAt(fr.data, fr.linesize * (y - 1), row_size_of(fr.format, fr.width))]

ImageOf(fr) == [width |-> fr.width, height |-> fr.height, rows |-> ImageRows(fr)]

\* bytes from .. to - 1 of the zlen bytes the image compresses to
StreamPart(image, zlen, from, to) ==
    [image |-> image, zlen |-> zlen, from |-> from, to |-> to]

\* write_stream with the test of line 283 asking for the room of four
\* buffers
RECURSIVE write_stream_tight(_, _, _, _, _)
write_stream_tight(st, frame_number, image, zlen, from) ==
    IF zlen - from >= IOBUF_SIZE
    THEN IF st.bytestream_end.pos - st.bytestream.pos > 4 * IOBUF_SIZE + 100
         THEN write_stream_tight(
                  png_write_image_data(st, frame_number,
                      StreamPart(image, zlen, from, from + IOBUF_SIZE),
                      IOBUF_SIZE),
                  frame_number, image, zlen, from + IOBUF_SIZE)
         ELSE write_stream_tight(st, frame_number, image, zlen,
                                 from + IOBUF_SIZE)
    ELSE IF zlen - from > 0
            /\ st.bytestream_end.pos - st.bytestream.pos > (zlen - from) + 100
         THEN png_write_image_data(st, frame_number,
                  StreamPart(image, zlen, from, zlen), zlen - from)
         ELSE st

\* Every IOBUF_SIZE bytes the compressor fills s->buf (png_write_row, or the
\* Z_FINISH loop on Z_OK) and the buffer is written out if the output has
\* room for it; the bytes left at Z_STREAM_END are written out likewise.
RECURSIVE write_stream(_, _, _, _, _)
write_stream(st, frame_number, image, zlen, from) ==
    IF zlen - from >= IOBUF_SIZE
    THEN IF st.bytestream_end.pos - st.bytestream.pos > IOBUF_SIZE + 100
         THEN write_stream(
                  png_write_image_data(st, frame_number,
                      StreamPart(image, zlen, from, from + IOBUF_SIZE),
                      IOBUF_SIZE),
                  frame_number, image, zlen, from + IOBUF_SIZE)
         ELSE write_stream(st, frame_number, image, zlen, from + IOBUF_SIZE)
    ELSE IF zlen - from > 0
            /\ st.bytestream_end.pos - st.bytestream.pos > (zlen - from) + 100
         THEN png_write_image_data(st, frame_number,
                  StreamPart(image, zlen, from, zlen), zlen - from)
         ELSE st

\* encode_frame(avctx, pict) when the compressor reports no failure
encode_frame(st, frame_number, pict, zlen) ==
    write_stream(st, frame_number, ImageOf(pict), zlen, 0)

----------------------------------------------------------------------------
(* apng_encode_frame: the dispose/blend search                             *)

\* stands for SIZE_MAX: above the size of every buffer of the model
SIZE_MAX == 2147483647

\* the memset loop of the BACKGROUND disposal
RECURSIVE dispose_background(_, _, _, _, _)
dispose_background(data, linesize, bpp, fctl, y) ==
    IF y >= fctl.y_offset + fctl.height THEN data
    ELSE dispose_background(
            memset0(data, linesize * y + bpp * fctl.x_offset, bpp * fctl.width),
            linesize, bpp, fctl, y + 1)

\* "Do disposal": what diffFrame holds before inverse blending.  Only called
\* for PREVIOUS when prev_frame exists.
disposed_frame(st, pict, last_fctl_chunk, bpp) ==
    IF last_fctl_chunk.dispose_op # APNG_DISPOSE_OP_PREVIOUS
    THEN IF last_fctl_chunk.dispose_op = APNG_DISPOSE_OP_BACKGROUND
         THEN [st.last_frame EXCEPT
                 !.data = dispose_background(@, st.last_frame.linesize, bpp,
                                             last_fctl_chunk,
                                             last_fctl_chunk.y_offset)]
         ELSE st.last_frame
    ELSE st.prev_frame

\* the i-th (dispose_op, blend_op) pair of the two nested loops, i in 1..6
DisposeOf(i) == (i - 1) \div 2
BlendOf(i) == (i - 1) % 2

\* candidate_blend with the test of line 785 made for NONE as well:
\* without a prev_frame only the BACKGROUND candidates get as far as the
\* inverse blend
candidate_blend_needs_prev(st, pict, last_fctl_chunk, fctl_chunk, bpp) ==
    IF last_fctl_chunk.dispose_op # APNG_DISPOSE_OP_BACKGROUND
       /\ st.prev_frame = NullFrame
    THEN [ret |-> -1, output |-> NullFrame, fctl_chunk |-> fctl_chunk]
    ELSE apng_do_inverse_blend(
            disposed_frame(st, pict, last_fctl_chunk, bpp), pict, fctl_chunk, bpp)

\* Disposal and inverse blending of one candidate; ret < 0 when the
\* candidate is skipped, by either "continue"
candidate_blend(st, pict, last_fctl_chunk, fctl_chunk, bpp) ==
    IF last_fctl_chunk.dispose_op = APNG_DISPOSE_OP_PREVIOUS
       /\ st.prev_frame = NullFrame
    THEN [ret |-> -1, output |-> NullFrame, fctl_chunk |-> fctl_chunk]
    ELSE apng_do_inverse_blend(
            disposed_frame(st, pict, last_fctl_chunk, bpp), pict, fctl_chunk, bpp)

\* the images the candidates of one search hand to encode_frame
CandidateImages(st, pict, bpp) ==
    { ImageOf(candidate_blend(
                  st, pict,
                  [st.last_frame_fctl EXCEPT !.dispose_op = DisposeOf(i)],
                  [ZeroFctl EXCEPT !.blend_op = BlendOf(i)], bpp).output) :
        i \in { j \in 1..6 :
                  candidate_blend(
                      st, pict,
                      [st.last_frame_fctl EXCEPT !.dispose_op = DisposeOf(j)],
                      [ZeroFctl EXCEPT !.blend_op = BlendOf(j)], bpp).ret = 0 } }

\* the entries a candidate wrote from ptr on, size bytes of them, with
\* offsets counted from ptr
WrittenAt(st, ptr, size) ==
    LET Within(c) == c.at >= ptr.pos /\ c.at + ChunkBytes(c) <= ptr.pos + size
        w == SelectSeq(BufferOf(st, ptr), Within)
    IN  [k \in 1..Len(w) |-> [w[k] EXCEPT !.at = @ - ptr.pos]]

\* take_champion storing the candidate's own record, with the disposal
\* tried, in the record of the frame before
take_champion_whole_record(L, fctl_chunk, last_fctl_chunk, sequence_number, bytestream_size) ==
    [L EXCEPT
       !.best_fctl_chunk = fctl_chunk,
       !.st.last_frame_fctl =
            [fctl_chunk EXCEPT !.dispose_op = last_fctl_chunk.dispose_op],
       !.best_sequence_number = sequence_number,
       !.best_bytestream = L.st.bytestream,
       !.best_bytestream_size = bytestream_size,
       !.st.bytestream =
            IF L.st.bytestream = L.original_bytestream
            THEN [buf |-> "temp_bytestream", pos |-> 0]
            ELSE L.original_bytestream,
       !.st.bytestream_end =
            IF L.st.bytestream = L.original_bytestream
            THEN [buf |-> "temp_bytestream",
                  pos |-> L.original_bytestream_end.pos - L.original_bytestream.pos]
            ELSE L.original_bytestream_end]

\* take_champion storing the disposal the loop counter moves to next
\* instead of the one tried
take_champion_next_dispose(L, fctl_chunk, last_fctl_chunk, sequence_number, bytestream_size) ==
    [L EXCEPT
       !.best_fctl_chunk = fctl_chunk,
       !.st.last_frame_fctl =
            [last_fctl_chunk EXCEPT
               !.dispose_op = Min(@ + 1, APNG_DISPOSE_OP_PREVIOUS)],
       !.best_sequence_number = sequence_number,
       !.best_bytestream = L.st.bytestream,
       !.best_bytestream_size = bytestream_size,
       !.st.bytestream =
            IF L.st.bytestream = L.original_bytestream
            THEN [buf |-> "temp_bytestream", pos |-> 0]
            ELSE L.original_bytestream,
       !.st.bytestream_end =
            IF L.st.bytestream = L.original_bytestream
            THEN [buf |-> "temp_bytestream",
                  pos |-> L.original_bytestream_end.pos - L.original_bytestream.pos]
            ELSE L.original_bytestream_end]

\* take_champion leaving the writer where it is: the next candidate goes
\* into the buffer the champion is in
take_champion_in_place(L, fctl_chunk, last_fctl_chunk, sequence_number, bytestream_size) ==
    [L EXCEPT
       !.best_fctl_chunk = fctl_chunk,
       !.st.last_frame_fctl = last_fctl_chunk,
       !.best_sequence_number = sequence_number,
       !.best_bytestream = L.st.bytestream,
       !.best_bytestream_size = bytestream_size]

\* lines 808-823: the candidate is the new champion, and the next candidate
\* is given the buffer the champion is not in
take_champion(L, fctl_chunk, last_fctl_chunk, sequence_number, bytestream_size) ==
    [L EXCEPT
       !.best_fctl_chunk = fctl_chunk,
       !.st.last_frame_fctl = last_fctl_chunk,
       !.best_sequence_number = sequence_number,
       !.best_bytestream = L.st.bytestream,
       !.best_bytestream_size = bytestream_size,
       !.st.bytestream =
            IF L.st.bytestream = L.original_bytestream
            THEN [buf |-> "temp_bytestream", pos |-> 0]
            ELSE L.original_bytestream,
       !.st.bytestream_end =
            IF L.st.bytestream = L.original_bytestream
            THEN [buf |-> "temp_bytestream",
                  pos |-> L.original_bytestream_end.pos - L.original_bytestream.pos]
            ELSE L.original_bytestream_end]

\* candidate_encoded with "<=" for the "<" of line 808: of candidates of
\* equal size the last one is kept
candidate_encoded_last_wins(L, pict, bpp, i, last_fctl_chunk, fctl_chunk, e) ==
    LET bytestream_size == e.bytestream.pos - L.st.bytestream.pos
        L2 == [L EXCEPT
                 !.last_fctl_chunk = last_fctl_chunk,
                 !.fctl_chunk = fctl_chunk,
                 !.st = [e EXCEPT
                           !.sequence_number = L.st.sequence_number,
                           !.bytestream = L.st.bytestream],
                 !.tried = Append(@, [pair |-> i, skipped |-> FALSE,
                                      into |-> L.st.bytestream,
                                      size |-> bytestream_size,
                                      bytes |-> WrittenAt(e, L.st.bytestream,
                                                          bytestream_size),
                                      champion |-> L.best_bytestream,
                                      fctl_chunk |-> fctl_chunk,
                                      differing |->
                                          DiffPixels(pict,
                                              disposed_frame(L.st, pict,
                                                  last_fctl_chunk, bpp))])]
    IN  IF bytestream_size <= L.best_bytestream_size
        THEN take_champion(L2, fctl_chunk, last_fctl_chunk,
                           e.sequence_number, bytestream_size)
        ELSE L2

\* lines 799-823: the candidate sub-image has been encoded, leaving the
\* context e
candidate_encoded(L, pict, bpp, i, last_fctl_chunk, fctl_chunk, e) ==
    LET bytestream_size == e.bytestream.pos - L.st.bytestream.pos
        L2 == [L EXCEPT
                 !.last_fctl_chunk = last_fctl_chunk,
                 !.fctl_chunk = fctl_chunk,
                 !.st = [e EXCEPT
                           !.sequence_number = L.st.sequence_number,
                           !.bytestream = L.st.bytestream],
                 !.tried = Append(@, [pair |-> i, skipped |-> FALSE,
                                      into |-> L.st.bytestream,
                                      size |-> bytestream_size,
                                      bytes |-> WrittenAt(e, L.st.bytestream,
                                                          bytestream_size),
                                      champion |-> L.best_bytestream,
                                      fctl_chunk |-> fctl_chunk,
                                      differing |->
                                          DiffPixels(pict,
                                              disposed_frame(L.st, pict,
                                                  last_fctl_chunk, bpp))])]
    IN  IF bytestream_size < L.best_bytestream_size
        THEN take_champion(L2, fctl_chunk, last_fctl_chunk,
                           e.sequence_number, bytestream_size)
        ELSE L2

\* lines 795-806: r is what apng_do_inverse_blend made of the candidate
candidate_blended(L, frame_number, pict, bpp, zf, i, last_fctl_chunk, r) ==
    IF r.ret < 0
    THEN [L EXCEPT !.last_fctl_chunk = last_fctl_chunk,
                   !.fctl_chunk = r.fctl_chunk,
                   !.tried = Append(@, [pair |-> i, skipped |-> TRUE])]
    ELSE candidate_encoded(L, pict, bpp, i, last_fctl_chunk, r.fctl_chunk,
             encode_frame(L.st, frame_number, r.output, zf[ImageOf(r.output)]))

\* One pass of the inner loop body, for the i-th pair.  L holds the locals of
\* apng_encode_frame and the context; L.tried notes, for every pass, what
\* the pass was given and what it made of it.
apng_candidate(L, frame_number, pict, bpp, zf, i) ==
    candidate_blended(L, frame_number, pict, bpp, zf, i,
        [L.last_fctl_chunk EXCEPT !.dispose_op = DisposeOf(i)],
        candidate_blend(L.st, pict,
            [L.last_fctl_chunk EXCEPT !.dispose_op = DisposeOf(i)],
            [L.fctl_chunk EXCEPT !.blend_op = BlendOf(i)], bpp))

\* both loops; every pass is handed the value the pass before it left
RECURSIVE apng_search(_, _, _, _, _, _)
apng_search(L, frame_number, pict, bpp, zf, i) ==
    IF i > 6 THEN L
    ELSE CHOOSE r \in
            { apng_search(n, frame_number, pict, bpp, zf, i + 1) :
                n \in {apng_candidate(L, frame_number, pict, bpp, zf, i)} } : TRUE

\* memcpy(dst + dst_pos, src + src_pos, n) on buffers held as chunks
RECURSIVE memcpy_chunks(_, _, _, _, _, _)
memcpy_chunks(dst, dst_pos, src, src_pos, n, k) ==
    IF k > Len(src) THEN dst
    ELSE IF src[k].at >= src_pos /\ src[k].at + ChunkBytes(src[k]) <= src_pos + n
    THEN memcpy_chunks(
            PutChunk(dst, [src[k] EXCEPT !.at = @ - src_pos + dst_pos]),
            dst_pos, src, src_pos, n, k + 1)
    ELSE memcpy_chunks(dst, dst_pos, src, src_pos, n, k + 1)

\* lines 827-838: commit the champion and free the temporary buffer
apng_commit(L) ==
    LET st1 == [L.st EXCEPT
                  !.sequence_number = L.best_sequence_number,
                  !.bytestream =
                      [L.original_bytestream EXCEPT
                          !.pos = @ + L.best_bytestream_size],
                  !.bytestream_end = L.original_bytestream_end]
        st2 == IF L.best_bytestream # L.original_bytestream
               THEN [st1 EXCEPT
                       !.last_frame_packet =
                           memcpy_chunks(@, L.original_bytestream.pos,
                               BufferOf(L.st, L.best_bytestream),
                               L.best_bytestream.pos,
                               L.best_bytestream_size, 1)]
               ELSE st1
    IN  [st2 EXCEPT !.temp_bytestream = << >>]

\* apng_result handing back the frame control of the pass tried last
apng_result_last_tried(L) ==
    [ret |-> 0, st |-> apng_commit(L), fctl_chunk |-> L.fctl_chunk,
     tried |-> L.tried]

\* what apng_encode_frame leaves once the loops have ended with locals L
apng_result(L) ==
    [ret |-> 0, st |-> apng_commit(L), fctl_chunk |-> L.best_fctl_chunk,
     tried |-> L.tried]

\* apng_encode_frame(avctx, pict, &fctl_chunk, &s->last_frame_fctl); zf gives
\* the length the compressor makes of each image it is handed in this call
apng_encode_frame(st, avctx_, pict, best_fctl_chunk, zf) ==
    IF avctx_.frame_number = 0
    THEN [ret |-> 0,
          st |-> encode_frame(st, avctx_.frame_number, pict, zf[ImageOf(pict)]),
          fctl_chunk |-> [best_fctl_chunk EXCEPT
                            !.width = pict.width, !.height = pict.height,
                            !.x_offset = 0, !.y_offset = 0,
                            !.blend_op = APNG_BLEND_OP_SOURCE],
          tried |-> << >>]
    ELSE apng_result(
            apng_search([st |-> [st EXCEPT !.temp_bytestream = << >>],
                         original_bytestream |-> st.bytestream,
                         original_bytestream_end |-> st.bytestream_end,
                         best_sequence_number |-> 0 - 1,
                         best_bytestream |-> NullPtr,
                         best_bytestream_size |-> SIZE_MAX,
                         best_fctl_chunk |-> best_fctl_chunk,
                         last_fctl_chunk |-> st.last_frame_fctl,
                         fctl_chunk |-> best_fctl_chunk,
                         tried |-> << >>],
                        avctx_.frame_number, pict,
                        apng_bpp(avctx_.pix_fmt), zf, 1))

----------------------------------------------------------------------------
(* encode_apng                                                             *)

\* zlib's deflateBound for the default wrapper
deflateBound(n) == n + (n \div 4096) + (n \div 16384) + (n \div 33554432) + 13

max_packet_size(avctx_) ==
    LET enc_row_size == deflateBound(row_size_of(avctx_.pix_fmt, avctx_.width))
    IN  AV_INPUT_BUFFER_MIN_SIZE
        + avctx_.height
          * (enc_row_size
             + (4 + 12) * ((enc_row_size + IOBUF_SIZE - 1) \div IOBUF_SIZE))

\* the packet the caller hands in
NewPacket ==
    [data |-> << >>, size |-> 0, pts |-> 0 - 1, flags |-> {}, side_data |-> << >>]

\* lines 850-860: the frame is refused for its palette
palette_conflict(st, avctx_, pict) ==
    /\ color_type(avctx_.pix_fmt) = PNG_COLOR_TYPE_PALETTE
    /\ avctx_.frame_number # 0
    /\ palette_crc(pict.palette) # st.palette_checksum

\* lines 853-854
note_palette(st, avctx_, pict) ==
    IF color_type(avctx_.pix_fmt) = PNG_COLOR_TYPE_PALETTE
       /\ avctx_.frame_number = 0
    THEN [st EXCEPT !.palette_checksum = palette_crc(pict.palette)]
    ELSE st

\* build_extra_data with the signature laid down before the headers, as
\* encode_png does
build_extra_data_signed(st, avctx_, pict) ==
    LET h == encode_headers(
                 [st EXCEPT
                    !.extra_data = <<[at |-> 0, tag |-> "PNGSIG",
                                      length |-> Len(PNGSIG),
                                      sequence_number |-> NoSeq,
                                      data |-> PNGSIG]>>,
                    !.bytestream = [buf |-> "extra_data", pos |-> Len(PNGSIG)]],
                 avctx_, pict)
    IN  [h EXCEPT !.extra_data_size = h.bytestream.pos,
                  !.last_frame_packet = << >>]

\* lines 876-888: frame 0 builds the extra data and the holding buffer
build_extra_data(st, avctx_, pict) ==
    LET h == encode_headers(
                 [st EXCEPT !.extra_data = << >>,
                            !.bytestream = [buf |-> "extra_data", pos |-> 0]],
                 avctx_, pict)
    IN  [h EXCEPT !.extra_data_size = h.bytestream.pos,
                  !.last_frame_packet = << >>]

\* copy_held_packet stamping the packet with the time of the frame coming in
copy_held_packet_next_pts(st, pkt_) ==
    [pkt_ EXCEPT
       !.data = memcpy_chunks(<< >>, 0, st.last_frame_packet, 0,
                              st.last_frame_packet_size, 1),
       !.size = st.last_frame_packet_size,
       !.pts = st.last_frame.pts + 1]

\* lines 890-896: the held bytes leave in the caller's packet
copy_held_packet(st, pkt_) ==
    [pkt_ EXCEPT
       !.data = memcpy_chunks(<< >>, 0, st.last_frame_packet, 0,
                              st.last_frame_packet_size, 1),
       !.size = st.last_frame_packet_size,
       !.pts = st.last_frame.pts]

\* lines 900-908: aim the writer at the holding buffer, past the fcTL slot
begin_frame(st, avctx_) ==
    [st EXCEPT
       !.bytestream_start = [buf |-> "last_frame_packet", pos |-> 0],
       !.bytestream = [buf |-> "last_frame_packet", pos |-> 26 + 12],
       !.bytestream_end = [buf |-> "last_frame_packet",
                           pos |-> max_packet_size(avctx_)],
       !.sequence_number = @ + 1]

\* write_fctl attaching the extra data whatever extra_data_updated says
write_fctl_always(st, pkt_) ==
    [pkt_ EXCEPT
       !.side_data =
           Append(@, [type |-> "AV_PKT_DATA_NEW_EXTRADATA",
                      data |-> st.extra_data,
                      size |-> st.extra_data_size]),
       !.data = PutChunk(@, [at |-> 0, tag |-> "fcTL", length |-> 26,
                             sequence_number |->
                                 <<st.last_frame_fctl.sequence_number>>,
                             data |-> st.last_frame_fctl])]

\* lines 920-943: the extra data once, and the fcTL of the held frame
write_fctl(st, pkt_) ==
    [pkt_ EXCEPT
       !.side_data =
           IF st.extra_data_updated = 0
           THEN Append(@, [type |-> "AV_PKT_DATA_NEW_EXTRADATA",
                           data |-> st.extra_data,
                           size |-> st.extra_data_size])
           ELSE @,
       !.data = PutChunk(@, [at |-> 0, tag |-> "fcTL", length |-> 26,
                             sequence_number |->
                                 <<st.last_frame_fctl.sequence_number>>,
                             data |-> st.last_frame_fctl])]

\* lines 946-973: the canvas a later PREVIOUS disposal goes back to
snapshot_prev_frame(st, avctx_) ==
    IF st.last_frame = NullFrame THEN st
    ELSE IF st.last_frame_fctl.dispose_op # APNG_DISPOSE_OP_PREVIOUS
    THEN [st EXCEPT
            !.prev_frame =
                IF st.last_frame_fctl.dispose_op = APNG_DISPOSE_OP_BACKGROUND
                THEN [st.last_frame EXCEPT
                        !.data = dispose_background(
                                     @, st.last_frame.linesize,
                                     apng_bpp(avctx_.pix_fmt),
                                     st.last_frame_fctl,
                                     st.last_frame_fctl.y_offset)]
                ELSE st.last_frame]
    ELSE st

\* release_last_frame keeping the frame
release_last_frame_kept(st) == st

\* line 983
release_last_frame(st) == [st EXCEPT !.last_frame = NullFrame]

\* update_frames taking the snapshot after last_frame has been replaced
update_frames_late(st, avctx_, pict, fctl_chunk) ==
    IF pict # NullFrame
    THEN [snapshot_prev_frame(
              IF st.last_frame = NullFrame THEN st
              ELSE [st EXCEPT !.last_frame = pict], avctx_) EXCEPT
            !.last_frame = pict,
            !.last_frame_fctl = fctl_chunk,
            !.last_frame_packet_size =
                st.bytestream.pos - st.bytestream_start.pos]
    ELSE release_last_frame(st)

\* lines 945-984: the canvas state after the call
update_frames(st, avctx_, pict, fctl_chunk) ==
    IF pict # NullFrame
    THEN [snapshot_prev_frame(st, avctx_) EXCEPT
            !.last_frame = pict,
            !.last_frame_fctl = fctl_chunk,
            !.last_frame_packet_size =
                st.bytestream.pos - st.bytestream_start.pos]
    ELSE release_last_frame(st)

\* lines 899-918: the frame is encoded into last_frame_packet, or the held
\* frame is marked as the last one
encode_apng_frame(st, avctx_, pict, zf) ==
    IF pict # NullFrame
    THEN apng_encode_frame(
             begin_frame(st, avctx_), avctx_, pict,
             [ZeroFctl EXCEPT !.sequence_number = st.sequence_number], zf)
    ELSE [ret |-> 0,
          st |-> [st EXCEPT !.last_frame_fctl.dispose_op = APNG_DISPOSE_OP_NONE],
          fctl_chunk |-> ZeroFctl, tried |-> << >>]

\* lines 920-986: pkt_ holds the copy of the held packet, r is what the
\* encoding of the frame left
encode_apng_tail(avctx_, pict, pkt_, r) ==
    LET got_packet == IF r.st.last_frame # NullFrame THEN 1 ELSE 0
    IN  [ret |-> 0, got_packet |-> got_packet,
         pkt |-> IF got_packet = 1 THEN write_fctl(r.st, pkt_) ELSE pkt_,
         st |-> update_frames(
                    IF got_packet = 1
                    THEN [r.st EXCEPT !.extra_data_updated = 1] ELSE r.st,
                    avctx_, pict, r.fctl_chunk),
         tried |-> r.tried]

\* lines 872-986, once the palette check has passed and frame 0 has a raster
encode_apng_body(st, avctx_, pict, zf) ==
    encode_apng_tail(avctx_, pict,
        IF avctx_.frame_number # 0 /\ st.last_frame # NullFrame
        THEN copy_held_packet(st, NewPacket)
        ELSE NewPacket,
        encode_apng_frame(
            IF avctx_.frame_number = 0
            THEN build_extra_data(st, avctx_, pict)
            ELSE st,
            avctx_, pict, zf))

\* encode_apng(avctx, pkt, pict, got_packet)
encode_apng(st, avctx_, pict, zf) ==
    IF pict # NullFrame /\ palette_conflict(st, avctx_, pict)
    THEN [ret |-> 0 - 1, got_packet |-> 0, pkt |-> NewPacket, st |-> st,
          tried |-> << >>]
    ELSE IF avctx_.frame_number = 0 /\ pict = NullFrame
    THEN [ret |-> 0 - 22, got_packet |-> 0, pkt |-> NewPacket, st |-> st,
          tried |-> << >>]
    ELSE encode_apng_body(
            IF pict # NullFrame THEN note_palette(st, avctx_, pict) ELSE st,
            avctx_, pict, zf)

\* the images one call hands to the compressor
CallImages(st, avctx_, pict) ==
    IF pict = NullFrame \/ palette_conflict(st, avctx_, pict) THEN {}
    ELSE IF avctx_.frame_number = 0 THEN {ImageOf(pict)}
    ELSE CandidateImages(st, pict, apng_bpp(avctx_.pix_fmt))

----------------------------------------------------------------------------
(* A reference APNG decoder, fed the packets in the order they are returned *)

\* the image the image-data chunks of a packet inflate to, if they hold one
\* whole compressed stream
DataChunks(chunks) ==
    LET IsData(c) == c.tag \in {"IDAT", "fdAT"} IN SelectSeq(chunks, IsData)

WholeStream(parts) ==
    /\ Len(parts) > 0
    /\ parts[1].data.from = 0
    /\ parts[Len(parts)].data.to = parts[1].data.zlen
    /\ \A k \in 1..(Len(parts) - 1) :
          /\ parts[k + 1].data.from = parts[k].data.to
          /\ parts[k + 1].data.image = parts[k].data.image
          /\ parts[k + 1].data.zlen = parts[k].data.zlen

\* the decoder's BACKGROUND disposal: the pixels of the rectangle become
\* fully transparent black
ClearedPixel(canvas, fctl, x, y) ==
    IF /\ x >= fctl.x_offset /\ x < fctl.x_offset + fctl.width
       /\ y >= fctl.y_offset /\ y < fctl.y_offset + fctl.height
    THEN Zeros(apng_bpp(canvas.format))
    ELSE PixelAt(canvas, x, y)

\* a raster of byte pixels from its pixels in raster order
WithPixels(canvas, Px(_, _)) ==
    [canvas EXCEPT
       !.data = Flatten([k \in 1..(canvas.width * canvas.height) |->
                            Px((k - 1) % canvas.width, (k - 1) \div canvas.width)])]

DecoderDispose(d) ==
    CASE d.fctl.dispose_op = APNG_DISPOSE_OP_NONE -> d.canvas
      [] d.fctl.dispose_op = APNG_DISPOSE_OP_BACKGROUND ->
            LET Px(x, y) == ClearedPixel(d.canvas, d.fctl, x, y)
            IN  WithPixels(d.canvas, Px)
      [] d.fctl.dispose_op = APNG_DISPOSE_OP_PREVIOUS -> d.before

\* the decoder takes one packet: fcTL, then the frame's image data
DecodePacket(d, pkt_, pix_fmt, width, height) ==
    LET fctl == pkt_.data[1].data
        parts == DataChunks(pkt_.data)
    IN  IF ~d.ok \/ pkt_.data[1].tag # "fcTL" \/ ~WholeStream(parts)
           \/ parts[1].data.image.width # fctl.width
           \/ parts[1].data.image.height # fctl.height
           \/ fctl.x_offset + fctl.width > width
           \/ fctl.y_offset + fctl.height > height
        THEN [d EXCEPT !.ok = FALSE, !.shown = @ + 1]
        ELSE
          LET image == parts[1].data.image
              sub == Frame(pix_fmt, image.width, image.height,
                           Flatten(image.rows), d.palette)
              blank == Frame(pix_fmt, width, height,
                             Zeros(LineSize(pix_fmt, width) * height), d.palette)
              base == IF d.shown = 0 THEN blank ELSE DecoderDispose(d)
              Px(x, y) == ComposedPixel(base, sub, fctl, x, y)
          IN  [d EXCEPT !.canvas = WithPixels(base, Px), !.before = base,
                        !.fctl = fctl, !.shown = @ + 1]

----------------------------------------------------------------------------
(* Spec: an APNG stream.  The caller feeds rasters of StripWidth x 1       *)
(* pixels, then calls with no raster; it stops at the first error.         *)

MaxFlushes == 2

StreamFormats == {"GRAY8", "GRAY8A", "PAL8"}

\* lengths the compressor can make of an image: up to MaxBlocks full
\* buffers and a tail
TailLength == 9
ZLens == {k * IOBUF_SIZE + TailLength : k \in 0..MaxBlocks}

\* the colours of a stream
StreamColourSets(pix_fmt) ==
    IF pix_fmt = "GRAY8A"
    THEN {{<<0, 0>>, <<1, 0>>}, {<<0, 0>>, <<1, 255>>}}
    ELSE ColourSets(pix_fmt)

\* The palettes a frame of a stream can come with.  PalB is PalA's double
\* under the checksum, so a stream opens with PalA or PalC.
StreamPalettes(pix_fmt, frame_number) ==
    IF frame_number = 0 THEN Palettes(pix_fmt) \ {PalB} ELSE Palettes(pix_fmt)

\* the rasters of a stream: strips whose two end pixels are alike
StripRasters(pix_fmt, colours, palette) ==
    { r \in Rasters(pix_fmt, StripWidth, 1, colours, palette) :
        PixelAt(r, 0, 0) = PixelAt(r, StripWidth - 1, 0) }

AVFrameOf(r, pts) ==
    [format |-> r.format, width |-> r.width, height |-> r.height,
     linesize |-> r.linesize, data |-> r.data, palette |-> r.palette,
     pts |-> pts]

\* PNGEncContext after png_enc_init: priv_data is zeroed
InitContext ==
    [sequence_number |-> 0, palette_checksum |-> <<0, 0>>,
     extra_data |-> << >>, extra_data_size |-> 0, extra_data_updated |-> 0,
     prev_frame |-> NullFrame, last_frame |-> NullFrame,
     last_frame_fctl |-> ZeroFctl,
     last_frame_packet |-> << >>, last_frame_packet_size |-> 0,
     temp_bytestream |-> << >>, pkt_data |-> << >>,
     bytestream |-> NullPtr, bytestream_start |-> NullPtr,
     bytestream_end |-> NullPtr]

Init ==
    /\ \E pix_fmt \in StreamFormats :
         /\ avctx = [codec_id |-> "AV_CODEC_ID_APNG", pix_fmt |-> pix_fmt,
                     width |-> StripWidth, height |-> 1, frame_number |-> 0]
         /\ \E colours \in StreamColourSets(pix_fmt) :
              env = [colours |-> colours, fed |-> 0, nulls |-> 0,
                     flushed |-> FALSE, broken |-> FALSE,
                     rasters |-> << >>, encoded |-> << >>]
    /\ s = InitContext
    /\ call = [op |-> "none", pict |-> NullFrame, tried |-> << >>]
    /\ pkt = NewPacket
    /\ dec = [ok |-> TRUE, shown |-> 0, canvas |-> NullFrame,
              before |-> NullFrame, fctl |-> ZeroFctl, palette |-> NoPalette]
    /\ obs = [ret |-> 0, got_packet |-> 0, seqs |-> << >>, packets |-> 0,
              pts |-> << >>]
    /\ bl = BlendIdle
    /\ fl = FilterIdle
    /\ zs = DeflateIdle
    /\ wr = ChunkIdle

\* the sequence numbers the chunks of a packet carry, in order
RECURSIVE SeqsOf(_)
SeqsOf(chunks) ==
    IF chunks = << >> THEN << >>
    ELSE Head(chunks).sequence_number \o SeqsOf(Tail(chunks))

\* the image-data chunks a buffer holds after the fcTL slot
HeldData(chunks, size) ==
    LET Held(c) == c.at >= 26 + 12 /\ c.at + ChunkBytes(c) <= size
    IN  SelectSeq(chunks, Held)

\* the palette the extra data gives the decoder
PaletteOfExtra(side_data) ==
    IF \E k \in 1..Len(side_data[1].data) : side_data[1].data[k].tag = "PLTE"
    THEN (CHOOSE c \in {side_data[1].data[k] : k \in 1..Len(side_data[1].data)} :
             c.tag = "PLTE").data
    ELSE NoPalette

\* What the caller does with the outcome of a call: avcodec counts the call
\* when it returned 0, the packet goes to the decoder.
Return(op, pict, r) ==
    /\ s' = r.st
    /\ pkt' = r.pkt
    /\ call' = [op |-> op, pict |-> pict, tried |-> r.tried]
    /\ avctx' = [avctx EXCEPT !.frame_number = IF r.ret = 0 THEN @ + 1 ELSE @]
    /\ obs' = [ret |-> r.ret, got_packet |-> r.got_packet,
               seqs |-> IF r.got_packet = 1
                        THEN obs.seqs \o SeqsOf(r.pkt.data) ELSE obs.seqs,
               packets |-> obs.packets + r.got_packet,
               pts |-> IF r.got_packet = 1
                       THEN Append(obs.pts, r.pkt.pts) ELSE obs.pts]
    /\ env' = [env EXCEPT
                 !.fed = IF pict # NullFrame /\ r.ret = 0 THEN @ + 1 ELSE @,
                 !.nulls = IF pict = NullFrame THEN @ + 1 ELSE @,
                 !.flushed = @ \/ (pict = NullFrame /\ r.ret = 0),
                 !.broken = r.ret < 0,
                 !.rasters = IF pict # NullFrame /\ r.ret = 0
                             THEN Append(@, pict) ELSE @,
                 !.encoded = IF pict # NullFrame /\ r.ret = 0
                             THEN Append(@, HeldData(r.st.last_frame_packet,
                                                     r.st.last_frame_packet_size))
                             ELSE @]
    /\ dec' = IF r.got_packet = 1
              THEN DecodePacket(
                       IF r.pkt.side_data # << >>
                       THEN [dec EXCEPT !.palette = PaletteOfExtra(r.pkt.side_data)]
                       ELSE dec,
                       r.pkt, avctx.pix_fmt, avctx.width, avctx.height)
              ELSE dec
    /\ UNCHANGED <<bl, fl, zs, wr>>

\* encode_apng called with a raster
SendFrame ==
    /\ avctx.codec_id = "AV_CODEC_ID_APNG"
    /\ ~env.broken /\ ~env.flushed /\ env.fed < MaxFrames
    /\ \E palette \in StreamPalettes(avctx.pix_fmt, avctx.frame_number) :
       \E pict \in { AVFrameOf(r, env.fed) :
                       r \in StripRasters(avctx.pix_fmt, env.colours, palette) } :
       \E zf \in [CallImages(s, avctx, pict) -> ZLens] :
       \E r \in {encode_apng(s, avctx, pict, zf)} :
          Return("frame", pict, r)

\* encode_apng called with no raster
SendNull ==
    /\ avctx.codec_id = "AV_CODEC_ID_APNG"
    /\ ~env.broken /\ env.nulls < MaxFlushes
    /\ \E r \in {encode_apng(s, avctx, NullFrame, << >>)} :
          Return("null", NullFrame, r)

Next == SendFrame \/ SendNull

Spec == Init /\ [][Next]_vars

----------------------------------------------------------------------------
(* Claims about the APNG stream (Spec)                                     *)

\* the last call was given a raster and returned 0
FrameAccepted == call.op = "frame" /\ obs.ret = 0

\* C1: in every run whose calls all succeed, the sequence numbers carried
\* by the fcTL and fdAT chunks of the packets returned so far, read in the
\* order the chunks left, are 0, 1, 2, ... without gap or repeat, and no
\* IDAT chunk carries one.
C1_SequenceNumbersGapFree ==
    ~env.broken =>
        /\ \A k \in 1..Len(obs.seqs) : obs.seqs[k] = k - 1
        /\ \A k \in 1..Len(pkt.data) :
              pkt.data[k].tag = "IDAT" => pkt.data[k].sequence_number = NoSeq

\* C1 witness: a flushed three-frame stream in which a search encoded more
\* than one candidate and a frame after the first left in two fdAT chunks.
C1_Witness ==
    /\ env.flushed /\ env.fed = MaxFrames /\ obs.packets = MaxFrames
    /\ \E k \in 2..Len(pkt.data) :
          pkt.data[k].tag = "fdAT" /\ pkt.data[k - 1].tag = "fdAT"
    /\ Len(obs.seqs) > MaxFrames + 1

\* C2: the call that accepts frame 0 returns no packet; every later call
\* that accepts a frame returns one packet, whose image-data chunks are
\* the ones that were encoded for the frame before and whose timestamp is
\* that frame's.
C2_PacketsOneCallLate ==
    FrameAccepted =>
        IF env.fed = 1
        THEN obs.got_packet = 0
        ELSE /\ obs.got_packet = 1
             /\ DataChunks(pkt.data) = env.encoded[env.fed - 1]
             /\ pkt.pts = env.rasters[env.fed - 1].pts
             /\ Len(obs.pts) = env.fed - 1

\* C2 witness: the call for the third frame returned the second frame's
\* bytes, which differ from the bytes just encoded for the third.
C2_Witness ==
    /\ FrameAccepted /\ env.fed = 3 /\ obs.got_packet = 1
    /\ env.encoded[2] # env.encoded[3]
    /\ DataChunks(pkt.data) = env.encoded[2]

\* C3: a call without raster that returns 0 leaves no last_frame and as
\* many packets as frames were accepted, each frame's once and in order;
\* the first such call returns the held packet with dispose_op NONE in its
\* fcTL, any further one returns no packet.
C3_FlushEmitsHeldPacketOnce ==
    (call.op = "null" /\ obs.ret = 0) =>
        /\ s.last_frame = NullFrame
        /\ obs.packets = env.fed
        /\ obs.pts = [k \in 1..env.fed |-> k - 1]
        /\ env.nulls = 1 =>
              /\ obs.got_packet = 1
              /\ pkt.data[1].tag = "fcTL"
              /\ pkt.data[1].data.dispose_op = APNG_DISPOSE_OP_NONE
        /\ env.nulls > 1 => obs.got_packet = 0

\* C3 witness: a second call without raster after two frames and a flush.
C3_Witness ==
    /\ call.op = "null" /\ obs.ret = 0 /\ env.nulls = 2 /\ env.fed = 2
    /\ obs.packets = 2 /\ obs.got_packet = 0

\* C4: once the decoder has shown frame N >= 1 (it disposed of frame N-1 as
\* that frame's fcTL says and blended the sub-image of frame N), its canvas
\* is input raster N.
C4_DecoderCanvasIsInputRaster ==
    dec.shown >= 2 =>
        /\ dec.ok
        /\ dec.canvas.data = env.rasters[dec.shown].data

\* the frame just accepted has the pixels and the palette of the one before
IdenticalPair ==
    /\ FrameAccepted /\ env.fed >= 2
    /\ env.rasters[env.fed].data = env.rasters[env.fed - 1].data
    /\ env.rasters[env.fed].palette = env.rasters[env.fed - 1].palette

OneByOneAtOrigin(fctl) ==
    /\ fctl.width = 1 /\ fctl.height = 1
    /\ fctl.x_offset = 0 /\ fctl.y_offset = 0

\* every candidate of the last search whose canvas had no pixel differing
\* from the raster was given the rectangle 1x1 at (0, 0)
EmptyDiffsAreOneByOne ==
    \A k \in 1..Len(call.tried) :
        (~call.tried[k].skipped /\ call.tried[k].differing = {}) =>
            OneByOneAtOrigin(call.tried[k].fctl_chunk)

\* C7 as stated: inverse-blend returns 1x1 at (0, 0) when no pixel differs,
\* and the fcTL held for the second of two identical successive frames is
\* 1x1.
C7_IdenticalFramesGiveOneByOne ==
    /\ EmptyDiffsAreOneByOne
    /\ IdenticalPair =>
          s.last_frame_fctl.width = 1 /\ s.last_frame_fctl.height = 1

\* C7 amended: inverse-blend returns 1x1 at (0, 0) when no pixel differs; the
\* fcTL held for a frame is never empty; and for the second of two identical
\* successive frames it is 1x1 at (0, 0) whenever the first frame's fcTL
\* left with dispose_op NONE.
C7_IdenticalFramesUnderDisposeNone ==
    /\ EmptyDiffsAreOneByOne
    /\ FrameAccepted =>
          s.last_frame_fctl.width >= 1 /\ s.last_frame_fctl.height >= 1
    /\ (IdenticalPair
        /\ pkt.data[1].data.dispose_op = APNG_DISPOSE_OP_NONE) =>
          OneByOneAtOrigin(s.last_frame_fctl)

\* C7 witness: the second of two identical frames was accepted with the
\* first one's dispose_op NONE, after a search that had a candidate with no
\* differing pixel.
C7_Witness ==
    /\ IdenticalPair
    /\ pkt.data[1].data.dispose_op = APNG_DISPOSE_OP_NONE
    /\ OneByOneAtOrigin(s.last_frame_fctl)
    /\ \E k \in 1..Len(call.tried) :
          ~call.tried[k].skipped /\ call.tried[k].differing = {}

\* C8: in a palette stream, a call with a raster for a frame after the
\* first returns an error, with no packet and the context, the decoder and
\* the numbers given out so far untouched, when the raster's palette is not
\* frame 0's; it returns 0 when the palette is frame 0's.
C8_OtherPaletteIsRejected ==
    [][ (/\ call'.op = "frame" /\ env'.nulls = env.nulls
         /\ avctx.frame_number > 0
         /\ color_type(avctx.pix_fmt) = PNG_COLOR_TYPE_PALETTE) =>
            IF call'.pict.palette # env.rasters[1].palette
            THEN /\ obs'.ret < 0 /\ obs'.got_packet = 0
                 /\ s' = s /\ dec' = dec /\ obs'.seqs = obs.seqs
            ELSE obs'.ret = 0 ]_vars

----------------------------------------------------------------------------
(* Scanline filtering: png_filter_row, png_choose_filter and the row loops *)
(* of encode_frame.  A row is a sequence of bytes, byte i of the C array   *)
(* being row[i + 1]; a missing top row (NULL) is NoTop.                    *)

PNG_FILTER_VALUE_NONE == 0
PNG_FILTER_VALUE_SUB == 1
PNG_FILTER_VALUE_UP == 2
PNG_FILTER_VALUE_AVG == 3
PNG_FILTER_VALUE_PAETH == 4
PNG_FILTER_VALUE_MIXED == 5
NB_PASSES == 7
INT_MAX == 2147483647

NoTop == << >>

\* paeth_predictor with the last two branches exchanged
paeth_predictor_swapped(a, b, c) ==
    LET p == b - c
        pc == a - c
        pa == Abs(p)
        pb == Abs(pc)
        pcc == Abs(p + pc)
    IN  IF pa <= pb /\ pa <= pcc THEN a
        ELSE IF pb <= pcc THEN c
        ELSE b

\* the body of the loop of sub_png_paeth_prediction, for a = src[i - bpp],
\* b = top[i], c = top[i - bpp]
paeth_predictor(a, b, c) ==
    LET p == b - c
        pc == a - c
        pa == Abs(p)
        pb == Abs(pc)
        pcc == Abs(p + pc)
    IN  IF pa <= pb /\ pa <= pcc THEN a
        ELSE IF pb <= pcc THEN b
        ELSE c

\* png_filter_row with the average rounded up
png_filter_row_avg_up(filter_type, src, top, size, bpp) ==
    CASE filter_type = PNG_FILTER_VALUE_NONE -> [i \in 1..size |-> src[i]]
      [] filter_type = PNG_FILTER_VALUE_SUB ->
            [i \in 1..size |->
                IF i <= bpp THEN src[i] ELSE U8(src[i] - src[i - bpp])]
      [] filter_type = PNG_FILTER_VALUE_UP ->
            [i \in 1..size |-> U8(src[i] - top[i])]
      [] filter_type = PNG_FILTER_VALUE_AVG ->
            [i \in 1..size |->
                IF i <= bpp THEN U8(src[i] - ((top[i] + 1) \div 2))
                ELSE U8(src[i] - ((src[i - bpp] + top[i] + 1) \div 2))]
      [] filter_type = PNG_FILTER_VALUE_PAETH ->
            [i \in 1..size |->
                IF i <= bpp THEN U8(src[i] - top[i])
                ELSE U8(src[i] - paeth_predictor(src[i - bpp], top[i],
                                                 top[i - bpp]))]

\* png_filter_row(c, dst, filter_type, src, top, size, bpp): the size bytes
\* left in dst
png_filter_row(filter_type, src, top, size, bpp) ==
    CASE filter_type = PNG_FILTER_VALUE_NONE -> [i \in 1..size |-> src[i]]
      [] filter_type = PNG_FILTER_VALUE_SUB ->
            [i \in 1..size |->
                IF i <= bpp THEN src[i] ELSE U8(src[i] - src[i - bpp])]
      [] filter_type = PNG_FILTER_VALUE_UP ->
            [i \in 1..size |-> U8(src[i] - top[i])]
      [] filter_type = PNG_FILTER_VALUE_AVG ->
            [i \in 1..size |->
                IF i <= bpp THEN U8(src[i] - (top[i] \div 2))
                ELSE U8(src[i] - ((src[i - bpp] + top[i]) \div 2))]
      [] filter_type = PNG_FILTER_VALUE_PAETH ->
            [i \in 1..size |->
                IF i <= bpp THEN U8(src[i] - top[i])
                ELSE U8(src[i] - paeth_predictor(src[i - bpp], top[i],
                                                 top[i - bpp]))]

\* cost += abs((int8_t) buf1[i]), i = 0 .. size
RECURSIVE row_cost(_, _)
row_cost(buf, i) ==
    IF i > Len(buf) THEN 0 ELSE Abs(Int8(buf[i])) + row_cost(buf, i + 1)

\* tagged_row writing a control byte three too high
tagged_row_shifted(pred, src, top, size, bpp) ==
    <<pred + 3>> \o png_filter_row(pred, src, top, size, bpp)

\* dst[0] = pred, followed by the filtered bytes
tagged_row(pred, src, top, size, bpp) ==
    <<pred>> \o png_filter_row(pred, src, top, size, bpp)

\* The loop of the mixed mode: buf1 is filled for every predictor and
\* swapped with buf2 when it costs less than the best so far.
RECURSIVE mixed_loop(_, _, _, _, _, _, _, _)
mixed_loop(src, top, size, bpp, pred, bcost, buf1, buf2) ==
    IF pred >= 5 THEN buf2
    ELSE IF row_cost(tagged_row(pred, src, top, size, bpp), 1) < bcost
    THEN mixed_loop(src, top, size, bpp, pred + 1,
                    row_cost(tagged_row(pred, src, top, size, bpp), 1),
                    buf2, tagged_row(pred, src, top, size, bpp))
    ELSE mixed_loop(src, top, size, bpp, pred + 1, bcost,
                    tagged_row(pred, src, top, size, bpp), buf2)

\* if (!top && pred) pred = PNG_FILTER_VALUE_SUB
effective_pred(filter_type, top) ==
    IF top = NoTop /\ filter_type # 0 THEN PNG_FILTER_VALUE_SUB ELSE filter_type

\* png_choose_filter(s, dst, src, top, size, bpp): the row returned, control
\* byte first
png_choose_filter(filter_type, src, top, size, bpp) ==
    IF effective_pred(filter_type, top) = PNG_FILTER_VALUE_MIXED
    THEN mixed_loop(src, top, size, bpp, 0, INT_MAX, << >>, << >>)
    ELSE tagged_row(effective_pred(filter_type, top), src, top, size, bpp)

\* Adam7 tables of png.c
ff_png_pass_xmin == <<0, 4, 0, 2, 0, 1, 0>>
ff_png_pass_xshift == <<3, 3, 2, 2, 1, 1, 0>>
ff_png_pass_ymask == <<128, 128, 8, 136, 34, 170, 85>>
\* masks[] of png_get_interlaced_row
masks == <<128, 8, 136, 34, 170, 85, 255>>

\* (mask << j) & 0x80, for j in 0 .. 7
MaskHit(mask, j) == (mask \div (2 ^ (7 - j))) % 2 = 1

ff_png_pass_row_size(pass, bits, width) ==
    IF width <= ff_png_pass_xmin[pass + 1] THEN 0
    ELSE (((width - ff_png_pass_xmin[pass + 1]
            + 2 ^ ff_png_pass_xshift[pass + 1] - 1)
           \div (2 ^ ff_png_pass_xshift[pass + 1])) * bits + 7) \div 8

\* case 1 of png_get_interlaced_row: b = (src[x >> 3] >> (7 - j)) & 1 for the
\* pixels of the pass, in order
RECURSIVE interlaced_bits(_, _, _, _)
interlaced_bits(pass, src, width, x) ==
    IF x >= width THEN << >>
    ELSE (IF MaskHit(masks[pass + 1], x % 8)
          THEN <<(src[(x \div 8) + 1] \div (2 ^ (7 - (x % 8)))) % 2>>
          ELSE << >>)
         \o interlaced_bits(pass, src, width, x + 1)

\* dst[dst_x >> 3] |= b << (7 - (dst_x & 7)) on a zeroed dst of row_size bytes
RECURSIVE packed_byte(_, _, _)
packed_byte(bits, i, k) ==
    IF k > 7 THEN 0
    ELSE (IF 8 * (i - 1) + k + 1 <= Len(bits)
          THEN bits[8 * (i - 1) + k + 1] * (2 ^ (7 - k)) ELSE 0)
         + packed_byte(bits, i, k + 1)

\* png_get_interlaced_row: the row of the pass, from pixel x on
RECURSIVE png_get_interlaced_row(_, _, _, _, _)
png_get_interlaced_row(bits, pass, src, width, x) ==
    IF bits = 1
    THEN [i \in 1..ff_png_pass_row_size(pass, bits, width) |->
            packed_byte(interlaced_bits(pass, src, width, x), i, 0)]
    ELSE IF x >= width THEN << >>
    ELSE (IF MaskHit(masks[pass + 1], x % 8)
          THEN BytesAt(src, (bits \div 8) * x, bits \div 8)
          ELSE << >>)
         \o png_get_interlaced_row(bits, pass, src, width, x + 1)

----------------------------------------------------------------------------
(* SpecFilter: png_enc_init's choice of the predictor and the row loops of  *)
(* encode_frame on a drawn raster of RowWidth x RowCount pixels            *)

FilterFormats == {"MONOBLACK", "GRAY8", "GRAY8A"}

FilterColourSets(pix_fmt) ==
    CASE pix_fmt = "MONOBLACK" -> {{0, 1}}
      [] pix_fmt = "GRAY8" -> {{<<0>>, <<1>>}, {<<2>>, <<129>>}, {<<5>>, <<250>>}}
      [] pix_fmt = "GRAY8A" -> {{<<5, 250>>, <<250, 129>>}, {<<0, 1>>, <<1, 0>>}}

\* the pred option and the deprecated avctx->prediction_method
FilterSettings ==
    {[pred |-> p, prediction_method |-> 0] :
        p \in PNG_FILTER_VALUE_NONE..PNG_FILTER_VALUE_MIXED}
    \cup {[pred |-> 0, prediction_method |-> m] : m \in {2, 9}}

av_clip(a, amin, amax) == IF a < amin THEN amin ELSE IF a > amax THEN amax ELSE a

\* png_enc_init without the MONOBLACK override
init_filter_type_any(pix_fmt, pred, prediction_method) ==
    IF prediction_method # 0
    THEN av_clip(prediction_method, PNG_FILTER_VALUE_NONE, PNG_FILTER_VALUE_MIXED)
    ELSE pred

\* s->filter_type after png_enc_init
init_filter_type(pix_fmt, pred, prediction_method) ==
    IF pix_fmt = "MONOBLACK" THEN PNG_FILTER_VALUE_NONE
    ELSE IF prediction_method # 0
    THEN av_clip(prediction_method, PNG_FILTER_VALUE_NONE, PNG_FILTER_VALUE_MIXED)
    ELSE pred

FilterDone == [pass |-> NB_PASSES, y |-> 0]

\* the next row the loops of encode_frame reach, from row y of pass on
RECURSIVE next_row(_, _, _, _, _, _)
next_row(is_progressive, pass, y, bits, width, height) ==
    IF is_progressive = 0
    THEN IF y < height THEN [pass |-> 0, y |-> y] ELSE FilterDone
    ELSE IF pass >= NB_PASSES THEN FilterDone
    ELSE IF y >= height \/ ff_png_pass_row_size(pass, bits, width) = 0
    THEN next_row(is_progressive, pass + 1, 0, bits, width, height)
    ELSE IF MaskHit(ff_png_pass_ymask[pass + 1], y % 8)
    THEN [pass |-> pass, y |-> y]
    ELSE next_row(is_progressive, pass, y + 1, bits, width, height)

InitFilter ==
    /\ \E pix_fmt \in FilterFormats :
       \E setting \in FilterSettings :
       \E is_progressive \in {0, 1} :
       \E colours \in FilterColourSets(pix_fmt) :
       \E pict \in Rasters(pix_fmt, RowWidth, RowCount, colours, NoPalette) :
          fl = [phase |-> "rows", pix_fmt |-> pix_fmt,
                pred |-> setting.pred,
                prediction_method |-> setting.prediction_method,
                filter_type |-> init_filter_type(pix_fmt, setting.pred,
                                                 setting.prediction_method),
                is_progressive |-> is_progressive,
                bits_per_pixel |-> bits_per_pixel(pix_fmt),
                width |-> RowWidth, height |-> RowCount, pict |-> pict,
                pass |-> 0, y |-> 0, top |-> NoTop, out |-> << >>]
    /\ bl = BlendIdle
    /\ zs = DeflateIdle
    /\ wr = ChunkIdle
    /\ avctx = SeqIdle /\ s = SeqIdle /\ call = SeqIdle /\ pkt = SeqIdle
    /\ env = SeqIdle /\ dec = SeqIdle /\ obs = SeqIdle

\* the row png_choose_filter is given for the raster row at ptr
filter_src(ptr) ==
    IF fl.is_progressive = 1
    THEN png_get_interlaced_row(fl.bits_per_pixel, fl.pass, ptr, fl.width, 0)
    ELSE ptr

\* pass_row_size, or row_size when the frame is not interlaced
filter_size ==
    IF fl.is_progressive = 1
    THEN ff_png_pass_row_size(fl.pass, fl.bits_per_pixel, fl.width)
    ELSE row_size_of(fl.pix_fmt, fl.width)

\* the state after the row was handed over as crow
row_written(row, crow, nxt) ==
    [fl EXCEPT
       !.out = Append(@, [pass |-> fl.pass, y |-> fl.y, src |-> row,
                          top |-> fl.top, crow |-> crow]),
       !.pass = nxt.pass, !.y = nxt.y,
       !.top = IF nxt.pass = fl.pass THEN row ELSE NoTop,
       !.phase = IF nxt = FilterDone THEN "done" ELSE "rows"]

\* One pass of the body of a row loop of encode_frame: the row is taken
\* (de-interlaced in progressive mode), filtered and handed to
\* png_write_row; fl.out lists what was handed over.
FilterRow ==
    /\ fl.phase = "rows"
    /\ \E row \in {filter_src(BytesAt(fl.pict.data, fl.y * fl.pict.linesize,
                                       row_size_of(fl.pix_fmt, fl.width)))} :
          fl' = row_written(row,
                    png_choose_filter(fl.filter_type, row, fl.top, filter_size,
                                      fl.bits_per_pixel \div 8),
                    next_row(fl.is_progressive, fl.pass, fl.y + 1,
                             fl.bits_per_pixel, fl.width, fl.height))
    /\ UNCHANGED <<avctx, s, call, pkt, env, dec, obs, bl, zs, wr>>

NextFilter == FilterRow

SpecFilter == InitFilter /\ [][NextFilter]_vars

----------------------------------------------------------------------------
(* Claims about scanline filtering (SpecFilter)                            *)

\* row k handed to the compressor is the first of its pass (of the frame,
\* when the frame is not interlaced)
FirstOfPass(k) == \A j \in 1..(k - 1) : fl.out[j].pass # fl.out[k].pass

\* C9: the first byte of every row handed to the compressor is one of 0, 1,
\* 2, 3, 4, and is 0 or 1 for row 0 of a non-interlaced frame and for the
\* first contributing row of every Adam7 pass, whatever the predictor
\* setting.
C9_ControlByteIsLegal ==
    \A k \in 1..Len(fl.out) :
        /\ fl.out[k].crow[1] \in 0..4
        /\ FirstOfPass(k) => fl.out[k].crow[1] \in {0, 1}

\* C9 witness: an interlaced frame filtered in mixed mode to its last row,
\* where a row with a row above it was given one of 2, 3, 4.
C9_Witness ==
    /\ fl.phase = "done" /\ fl.is_progressive = 1
    /\ fl.filter_type = PNG_FILTER_VALUE_MIXED
    /\ \E k \in 1..Len(fl.out) : ~FirstOfPass(k) /\ fl.out[k].crow[1] \in {2, 3, 4}
    /\ \E k \in 2..Len(fl.out) : FirstOfPass(k) /\ fl.out[k].crow[1] = 1

\* the sum of |int8(byte)| over the control byte and the filtered bytes
RECURSIVE SignedMagnitudeSum(_)
SignedMagnitudeSum(row) ==
    IF row = << >> THEN 0
    ELSE (IF Head(row) >= 128 THEN 256 - Head(row) ELSE Head(row))
         + SignedMagnitudeSum(Tail(row))

\* Row k filtered with predictor A, control byte first; a row with no row
\* above it is filtered against a row of zeros, as PNG defines it.
FilteredWith(A, k) ==
    <<A>> \o png_filter_row(A, fl.out[k].src,
                            IF fl.out[k].top = NoTop
                            THEN Zeros(Len(fl.out[k].src)) ELSE fl.out[k].top,
                            Len(fl.out[k].src), fl.bits_per_pixel \div 8)

StrictlyCheapest(A, k) ==
    \A B \in (0..4) \ {A} :
        SignedMagnitudeSum(FilteredWith(A, k)) < SignedMagnitudeSum(FilteredWith(B, k))

\* C10 as stated: in mixed mode every row on which one predictor strictly
\* minimises the cost is handed over filtered with that predictor.
C10_MixedPicksCheapest ==
    fl.filter_type = PNG_FILTER_VALUE_MIXED =>
        \A k \in 1..Len(fl.out) : \A A \in 0..4 :
            StrictlyCheapest(A, k) => fl.out[k].crow = FilteredWith(A, k)

\* What the loop of png_choose_filter does achieve: in mixed mode every row
\* that has a row above it and on which one predictor strictly minimises the
\* cost is handed over filtered with that predictor.
MixedPicksCheapestBelowTop ==
    fl.filter_type = PNG_FILTER_VALUE_MIXED =>
        \A k \in 1..Len(fl.out) : \A A \in 0..4 :
            (fl.out[k].top # NoTop /\ StrictlyCheapest(A, k)) =>
                fl.out[k].crow = FilteredWith(A, k)

\* a row with a row above it on which UP, AVG or PAETH is strictly cheapest,
\* handed over in mixed mode
MixedBelowTopCase ==
    /\ fl.filter_type = PNG_FILTER_VALUE_MIXED
    /\ \E k \in 1..Len(fl.out) : \E A \in 2..4 :
          /\ fl.out[k].top # NoTop /\ StrictlyCheapest(A, k)
          /\ fl.out[k].crow[1] = A

----------------------------------------------------------------------------
(* Claims about the filter stage as a PNG decoder sees it (SpecFilter)     *)

\* Adam7 as the PNG specification gives it: first column and row of every
\* pass and the distance between its columns and rows
Adam7XStart == <<0, 4, 0, 2, 0, 1, 0>>
Adam7XStep == <<8, 8, 4, 4, 2, 2, 1>>
Adam7YStart == <<0, 0, 4, 0, 2, 0, 1>>
Adam7YStep == <<8, 8, 8, 4, 4, 2, 2>>

\* the PNG Paeth predictor
PaethPredictor(a, b, c) ==
    LET pa == IF b >= c THEN b - c ELSE c - b
        pb == IF a >= c THEN a - c ELSE c - a
        pc == IF a + b >= 2 * c THEN a + b - 2 * c ELSE 2 * c - a - b
    IN  IF pa <= pb /\ pa <= pc THEN a ELSE IF pb <= pc THEN b ELSE c

\* the PNG inverse filter: the bytes of a scanline from its filtered bytes,
\* the scanline before it and the bytes already reconstructed
RECURSIVE InverseFilter(_, _, _, _, _)
InverseFilter(type, filt, prior, unit, recon) ==
    IF Len(recon) = Len(filt) THEN recon
    ELSE LET i == Len(recon) + 1
             a == IF i > unit THEN recon[i - unit] ELSE 0
             b == prior[i]
             c == IF i > unit THEN prior[i - unit] ELSE 0
             predicted == CASE type = 0 -> 0
                            [] type = 1 -> a
                            [] type = 2 -> b
                            [] type = 3 -> (a + b) \div 2
                            [] type = 4 -> PaethPredictor(a, b, c)
         IN  InverseFilter(type, filt, prior, unit,
                           Append(recon, (filt[i] + predicted) % 256))

\* bytes per complete pixel, rounded up to one, as the inverse filters use it
FilterUnit == IF fl.bits_per_pixel < 8 THEN 1 ELSE fl.bits_per_pixel \div 8

\* the scanline a decoder reconstructs from the k-th row handed over
RECURSIVE Reconstructed(_)
Reconstructed(k) ==
    InverseFilter(fl.out[k].crow[1], Tail(fl.out[k].crow),
                  IF k > 1 /\ fl.out[k - 1].pass = fl.out[k].pass
                  THEN Reconstructed(k - 1)
                  ELSE [i \in 1..(Len(fl.out[k].crow) - 1) |-> 0],
                  FilterUnit, << >>)

\* the pass pixel (x, y) belongs to
PassOf(x, y) ==
    IF fl.is_progressive = 0 THEN 0
    ELSE CHOOSE p \in 0..6 :
            /\ x >= Adam7XStart[p + 1] /\ (x - Adam7XStart[p + 1]) % Adam7XStep[p + 1] = 0
            /\ y >= Adam7YStart[p + 1] /\ (y - Adam7YStart[p + 1]) % Adam7YStep[p + 1] = 0

\* the place of pixel (x, y) in the scanline of its pass
ColumnInPass(x, y) ==
    IF fl.is_progressive = 0 THEN x
    ELSE (x - Adam7XStart[PassOf(x, y) + 1]) \div Adam7XStep[PassOf(x, y) + 1]

\* pixel j of a scanline: its bytes, or its bit for 1-bit pixels
PixelOfLine(line, j) ==
    IF fl.bits_per_pixel = 1
    THEN <<(line[(j \div 8) + 1] \div (2 ^ (7 - (j % 8)))) % 2>>
    ELSE SubSeq(line, j * (fl.bits_per_pixel \div 8) + 1,
                (j + 1) * (fl.bits_per_pixel \div 8))

\* the rows handed over for the scanline of pixel (x, y)
RowsOf(x, y) ==
    {k \in 1..Len(fl.out) : fl.out[k].pass = PassOf(x, y) /\ fl.out[k].y = y}

\* C11: once every row of a frame has been handed to the compressor,
\* applying to each handed-over row the PNG inverse filter its first byte
\* names (and undoing Adam7 when the frame is interlaced) gives back every
\* pixel of the input raster, for every format and predictor setting.
C11_InverseFilterGivesInput ==
    fl.phase = "done" =>
        \A x \in 0..(fl.width - 1) : \A y \in 0..(fl.height - 1) :
            /\ Cardinality(RowsOf(x, y)) = 1
            /\ \A k \in RowsOf(x, y) :
                  PixelOfLine(Reconstructed(k), ColumnInPass(x, y))
                  = PixelOfLine(SubSeq(fl.pict.data, y * fl.pict.linesize + 1,
                                       (y + 1) * fl.pict.linesize), x)

\* C11 witness: an interlaced two-byte-pixel frame was filtered in mixed
\* mode to its last row and a row was handed over as AVG or PAETH.
C11_Witness ==
    /\ fl.phase = "done" /\ fl.is_progressive = 1 /\ fl.pix_fmt = "GRAY8A"
    /\ fl.filter_type = PNG_FILTER_VALUE_MIXED
    /\ \E k \in 1..Len(fl.out) : fl.out[k].crow[1] \in {3, 4}

\* C12: a 1-bit monochrome frame has control byte 0 on every row handed to
\* the compressor, whatever the pred option and prediction_method are,
\* interlaced or not.
C12_MonochromeIsUnfiltered ==
    fl.pix_fmt = "MONOBLACK" =>
        \A k \in 1..Len(fl.out) : fl.out[k].crow[1] = 0

\* C12 witness: an interlaced monochrome frame configured through
\* prediction_method was filtered to its last row.
C12_Witness ==
    /\ fl.phase = "done" /\ fl.pix_fmt = "MONOBLACK" /\ fl.is_progressive = 1
    /\ fl.prediction_method # 0
    /\ Len(fl.out) > 1

----------------------------------------------------------------------------
(* encode_png: the still-image codec, one whole file per packet           *)

\* lines 527-533
max_packet_size_png(avctx_) ==
    LET enc_row_size == deflateBound(row_size_of(avctx_.pix_fmt, avctx_.width))
    IN  AV_INPUT_BUFFER_MIN_SIZE
        + avctx_.height
          * (enc_row_size
             + 12 * ((enc_row_size + IOBUF_SIZE - 1) \div IOBUF_SIZE))

\* lines 540-545: the writer is aimed at the packet and the signature laid
\* down
png_signature(st, avctx_) ==
    [st EXCEPT
       !.pkt_data = <<[at |-> 0, tag |-> "PNGSIG", length |-> Len(PNGSIG),
                       sequence_number |-> NoSeq, data |-> PNGSIG]>>,
       !.bytestream_start = [buf |-> "pkt_data", pos |-> 0],
       !.bytestream = [buf |-> "pkt_data", pos |-> Len(PNGSIG)],
       !.bytestream_end = [buf |-> "pkt_data",
                           pos |-> max_packet_size_png(avctx_)]]

\* lines 560-566 leaving the flags of the packet alone
png_packet_unflagged(st) ==
    [ret |-> 0, got_packet |-> 1,
     pkt |-> [NewPacket EXCEPT
                !.data = st.pkt_data,
                !.size = st.bytestream.pos - st.bytestream_start.pos],
     st |-> st, tried |-> << >>]

\* lines 560-566: IEND has been written, the packet is sized and flagged
png_packet(st) ==
    [ret |-> 0, got_packet |-> 1,
     pkt |-> [NewPacket EXCEPT
                !.data = st.pkt_data,
                !.size = st.bytestream.pos - st.bytestream_start.pos,
                !.flags = @ \cup {"AV_PKT_FLAG_KEY"}],
     st |-> st, tried |-> << >>]

\* encode_png(avctx, pkt, pict, got_packet) when the compressor reports no
\* failure; for this codec png_write_image_data always writes IDAT
encode_png(st, avctx_, pict, zlen) ==
    png_packet(
        png_write_chunk(
            encode_frame(encode_headers(png_signature(st, avctx_), avctx_, pict),
                         0, pict, zlen),
            "IEND", << >>, 0))

PngFormats == {"GRAY8", "PAL8"}

\* the still-image encoder after png_enc_init
InitPng ==
    /\ \E pix_fmt \in PngFormats :
         /\ avctx = [codec_id |-> "AV_CODEC_ID_PNG", pix_fmt |-> pix_fmt,
                     width |-> StripWidth, height |-> 1, frame_number |-> 0]
         /\ \E colours \in StreamColourSets(pix_fmt) :
              env = [colours |-> colours, fed |-> 0, nulls |-> 0,
                     flushed |-> FALSE, broken |-> FALSE,
                     rasters |-> << >>, encoded |-> << >>]
    /\ s = InitContext
    /\ call = [op |-> "none", pict |-> NullFrame, tried |-> << >>]
    /\ pkt = NewPacket
    /\ dec = [ok |-> TRUE, shown |-> 0, canvas |-> NullFrame,
              before |-> NullFrame, fctl |-> ZeroFctl, palette |-> NoPalette]
    /\ obs = [ret |-> 0, got_packet |-> 0, seqs |-> << >>, packets |-> 0,
              pts |-> << >>]
    /\ bl = BlendIdle
    /\ fl = FilterIdle
    /\ zs = DeflateIdle
    /\ wr = ChunkIdle

\* encode_png called with a raster; avcodec counts the call
SendStill ==
    /\ avctx.codec_id = "AV_CODEC_ID_PNG"
    /\ env.fed < MaxFrames
    /\ \E palette \in Palettes(avctx.pix_fmt) :
       \E pict \in { AVFrameOf(r, env.fed) :
                       r \in StripRasters(avctx.pix_fmt, env.colours, palette) } :
       \E zlen \in ZLens :
       \E r \in {encode_png(s, avctx, pict, zlen)} :
          /\ s' = r.st
          /\ pkt' = r.pkt
          /\ call' = [op |-> "still", pict |-> pict, tried |-> r.tried]
          /\ avctx' = [avctx EXCEPT !.frame_number = @ + 1]
          /\ obs' = [obs EXCEPT !.ret = r.ret, !.got_packet = r.got_packet,
                                !.packets = @ + 1]
          /\ env' = [env EXCEPT !.fed = @ + 1, !.rasters = Append(@, pict)]
          /\ UNCHANGED <<dec, bl, fl, zs, wr>>

\* both codecs of the file: ff_png_encoder, and ff_apng_encoder on grey
\* strips
InitCodecs == InitPng \/ (Init /\ avctx.pix_fmt = "GRAY8")

NextCodecs == SendFrame \/ SendNull \/ SendStill

SpecCodecs == InitCodecs /\ [][NextCodecs]_vars

----------------------------------------------------------------------------
(* Claims about the packets of both codecs (SpecCodecs)                    *)

\* C13 as stated: every packet either codec produces has the key-frame
\* flag set.
C13_EveryPacketIsKeyFrame ==
    obs.got_packet = 1 => "AV_PKT_FLAG_KEY" \in pkt.flags

\* C13: every packet the still-image codec produces has the key-frame flag
\* set, and no packet of the APNG codec has it, the first frame's and the
\* flushed one included.
C13_StillPacketsAreKeyFrames ==
    obs.got_packet = 1 =>
        ("AV_PKT_FLAG_KEY" \in pkt.flags <=> avctx.codec_id = "AV_CODEC_ID_PNG")

\* the still-image codec has produced the packet of its second frame
C13_Witness ==
    /\ call.op = "still" /\ obs.got_packet = 1 /\ obs.packets = 2
    /\ pkt.flags = {"AV_PKT_FLAG_KEY"}
    /\ pkt.data[1].tag = "PNGSIG" /\ pkt.data[Len(pkt.data)].tag = "IEND"

----------------------------------------------------------------------------
(* Claims about the extra data of an APNG stream (Spec)                    *)

\* C14: of the packets of an APNG stream the first one emitted, and no
\* other, carries side data: one AV_PKT_DATA_NEW_EXTRADATA entry holding
\* the extra data captured at frame 0.
C14_ExtraDataOnFirstPacketOnly ==
    obs.got_packet = 1 =>
        IF obs.packets = 1
        THEN pkt.side_data = <<[type |-> "AV_PKT_DATA_NEW_EXTRADATA",
                                data |-> s.extra_data,
                                size |-> s.extra_data_size]>>
             /\ s.extra_data # << >>
        ELSE pkt.side_data = << >>

\* a one-frame stream is flushed: the first packet comes out of the flush
C14_Witness ==
    /\ call.op = "null" /\ obs.got_packet = 1 /\ obs.packets = 1
    /\ env.fed = 1
    /\ Len(pkt.side_data) = 1

\* the tags of the entries of a buffer, in order
TagsOf(chunks) == [k \in 1..Len(chunks) |-> chunks[k].tag]

\* the entries of a buffer lie one after the other from offset "from" on;
\* the offset after the last one
RECURSIVE EndOfRun(_, _)
EndOfRun(chunks, from) ==
    IF chunks = << >> THEN from
    ELSE IF Head(chunks).at # from THEN 0 - 1
    ELSE EndOfRun(Tail(chunks), from + ChunkBytes(Head(chunks)))

\* the tags encode_headers writes for the frames of the model
HeaderTags(pix_fmt, palette) ==
    <<"IHDR", "pHYs">>
    \o (IF pix_fmt = "PAL8" THEN <<"PLTE">> ELSE << >>)
    \o (IF pix_fmt = "PAL8" /\ PaletteHasAlpha(palette) THEN <<"tRNS">> ELSE << >>)

----------------------------------------------------------------------------
(* SpecDeflate: one encode call followed from one deflate call to the      *)
(* next.  The compressor is outside the source; what a call of deflate     *)
(* returns is its own affair, so every return value is drawn.              *)

MaxRowCalls == 2        \* deflate calls one row can take
MaxFinishCalls == 2     \* deflate(Z_FINISH) calls that return Z_OK
DeflateRows == 2        \* rows of the image handed to encode_frame

\* what deflate can return (zlib.h)
DeflateReturns == {"Z_OK", "Z_STREAM_END", "Z_STREAM_ERROR", "Z_BUF_ERROR"}

\* the encode calls followed: a still image, frame 0 of an APNG stream, a
\* later frame with or without a frame to go back to
DeflateCalls ==
    { [codec_id |-> "AV_CODEC_ID_PNG", frame_number |-> 0, prev_frame |-> FALSE],
      [codec_id |-> "AV_CODEC_ID_APNG", frame_number |-> 0, prev_frame |-> FALSE],
      [codec_id |-> "AV_CODEC_ID_APNG", frame_number |-> 1, prev_frame |-> FALSE],
      [codec_id |-> "AV_CODEC_ID_APNG", frame_number |-> 2, prev_frame |-> TRUE] }

\* the image the encode call is made for
DeflateImage ==
    [pix_fmt |-> "GRAY8", width |-> StripWidth, height |-> DeflateRows]

\* bytestream_end - bytestream when encode_frame is entered: what the
\* headers of a still image (encode_png, lines 541-550) or the place kept
\* for the fcTL (encode_apng, line 907) leave of the budgeted buffer; the
\* temporary buffer of the search has the same room (lines 747-755)
frame_room(z) ==
    IF z.codec_id = "AV_CODEC_ID_PNG"
    THEN max_packet_size_png(DeflateImage) - (8 + (12 + 13) + (12 + 9))
    ELSE max_packet_size(DeflateImage) - (26 + 12)

\* what an image-data chunk takes besides its payload: length, tag and
\* CRC, and the sequence number of an fdAT (lines 250-267)
ImageDataOverhead(z) ==
    IF z.codec_id = "AV_CODEC_ID_PNG" \/ z.frame_number = 0 THEN 12 ELSE 16

\* png_write_image_data seen from the cursor
image_data_written(z, len) ==
    [z EXCEPT !.room = @ - (len + ImageDataOverhead(z)), !.len = len]

\* png_write_row_block without the test of line 283
png_write_row_block_unguarded(z) ==
    image_data_written(z, IOBUF_SIZE)

\* png_write_row, lines 282-287: the compressor has filled s->buf
png_write_row_block(z) ==
    IF z.room > IOBUF_SIZE + 100
    THEN image_data_written(z, IOBUF_SIZE)
    ELSE [z EXCEPT !.dropped = TRUE]

\* encode_frame, lines 500-505: len bytes are in s->buf after a
\* deflate(Z_FINISH) call
finish_block(z, len) ==
    IF len > 0 /\ z.room > len + 100
    THEN image_data_written(z, len)
    ELSE IF len > 0 THEN [z EXCEPT !.dropped = TRUE] ELSE z

\* the_end with deflateReset called on the success path only
the_end_reset_on_success(z, ret) ==
    [z EXCEPT !.phase = "encoded", !.frame_ret = ret,
              !.zstream = IF ret = 0 THEN "reset" ELSE @]

\* the_end: lines 516-521
the_end(z, ret) ==
    [z EXCEPT !.phase = "encoded", !.frame_ret = ret, !.zstream = "reset"]

\* encode_frame is entered: lines 460-462
enter_encode_frame(z) ==
    [z EXCEPT !.phase = "rows", !.y = 0, !.row_calls = 0, !.finish_calls = 0,
              !.entered = z.zstream, !.room = frame_room(z),
              !.len = 0, !.dropped = FALSE]

InitDeflate ==
    /\ \E c \in DeflateCalls :
          zs = enter_encode_frame(
                   [phase |-> "rows", codec_id |-> c.codec_id,
                    frame_number |-> c.frame_number,
                    prev_frame |-> c.prev_frame,
                    i |-> 0, accepted |-> 0,
                    y |-> 0, row_calls |-> 0, finish_calls |-> 0,
                    row_ret |-> 0, reported |-> FALSE,
                    frame_ret |-> 0, ret |-> 0, got_packet |-> 0,
                    zstream |-> "reset", entered |-> "reset",
                    room |-> 0, len |-> 0, dropped |-> FALSE])
    /\ bl = BlendIdle
    /\ fl = FilterIdle
    /\ wr = ChunkIdle
    /\ avctx = SeqIdle /\ s = SeqIdle /\ call = SeqIdle /\ pkt = SeqIdle
    /\ env = SeqIdle /\ dec = SeqIdle /\ obs = SeqIdle

\* png_write_row, lines 278-281: what the row's deflate call makes it return
png_write_row_ret(zret) == IF zret # "Z_OK" THEN 0 - 1 ELSE 0

\* the row loop of encode_frame moves on whatever png_write_row returned
\* (lines 481 and 492)
row_fed(z) ==
    IF z.y + 1 < DeflateRows
    THEN [z EXCEPT !.y = @ + 1, !.row_calls = 0]
    ELSE [z EXCEPT !.phase = "finish"]

\* one deflate(Z_NO_FLUSH) call of png_write_row; "full" says the call
\* left avail_out at 0, and "more" that it left input behind, so that the
\* while loop of line 278 goes round again
png_write_row_call(z, zret, full, more) ==
    IF png_write_row_ret(zret) < 0
    THEN row_fed([z EXCEPT !.row_ret = 0 - 1, !.reported = TRUE])
    ELSE IF more
    THEN [(IF full THEN png_write_row_block(z) ELSE z)
             EXCEPT !.row_calls = @ + 1]
    ELSE row_fed([(IF full THEN png_write_row_block(z) ELSE z)
                     EXCEPT !.row_ret = 0])

DeflateRow ==
    /\ zs.phase = "rows"
    /\ \E zret \in DeflateReturns :
       \E full \in BOOLEAN :
       \E more \in BOOLEAN :
          /\ more => zs.row_calls + 1 < MaxRowCalls
          /\ zs' = png_write_row_call([zs EXCEPT !.zstream = "used"],
                                      zret, full, more)
    /\ UNCHANGED <<avctx, s, call, pkt, env, dec, obs, bl, fl, wr>>

\* what IOBUF_SIZE - avail_out can be after a deflate(Z_FINISH) call
FinishLens == {0, TailLength, IOBUF_SIZE}

\* one deflate(Z_FINISH) call of the loop of lines 497-512
finish_call(z, zret, len) ==
    CASE zret = "Z_OK" -> [finish_block(z, len) EXCEPT !.finish_calls = @ + 1]
      [] zret = "Z_STREAM_END" -> the_end(finish_block(z, len), 0)
      [] OTHER -> the_end([z EXCEPT !.reported = TRUE], 0 - 1)

DeflateFinish ==
    /\ zs.phase = "finish"
    /\ \E zret \in DeflateReturns :
       \E len \in FinishLens :
          /\ zret = "Z_OK" => zs.finish_calls < MaxFinishCalls
          /\ zs' = finish_call([zs EXCEPT !.zstream = "used"], zret, len)
    /\ UNCHANGED <<avctx, s, call, pkt, env, dec, obs, bl, fl, wr>>

\* encode_png after encode_frame: lines 556-567
encode_png_return(z) ==
    IF z.frame_ret < 0
    THEN [z EXCEPT !.phase = "returned", !.ret = z.frame_ret, !.got_packet = 0]
    ELSE [z EXCEPT !.phase = "returned", !.ret = 0, !.got_packet = 1]

\* encode_apng after apng_encode_frame: lines 913-986; a packet goes out
\* when a frame is held
encode_apng_return(z, ret) ==
    IF ret < 0
    THEN [z EXCEPT !.phase = "returned", !.ret = ret, !.got_packet = 0]
    ELSE [z EXCEPT !.phase = "returned", !.ret = 0,
                   !.got_packet = IF z.frame_number # 0 THEN 1 ELSE 0]

\* apng_encode_frame, lines 757-797: the candidates from i on that are
\* skipped before anything is encoded: PREVIOUS without a frame to go back
\* to, and the OVER ones among "failing"
RECURSIVE next_candidate(_, _, _)
next_candidate(z, i, failing) ==
    IF i >= 6 THEN 6
    ELSE IF (DisposeOf(i) = APNG_DISPOSE_OP_PREVIOUS /\ ~z.prev_frame)
            \/ (BlendOf(i) = APNG_BLEND_OP_OVER /\ i \in failing)
    THEN next_candidate(z, i + 1, failing)
    ELSE i

\* The caller of encode_frame takes its return value: encode_png; or
\* apng_encode_frame, which for frame 0 hands it on (line 733) and for a
\* later frame fails on it (lines 804-805) or goes on to the next candidate
\* and, after the last one, commits and returns 0 (lines 827-833).
FrameEncoded ==
    /\ zs.phase = "encoded"
    /\ \E failing \in SUBSET {1, 3, 5} :
          zs' = IF zs.codec_id = "AV_CODEC_ID_PNG" THEN encode_png_return(zs)
                ELSE IF zs.frame_number = 0
                THEN encode_apng_return(zs, zs.frame_ret)
                ELSE IF zs.frame_ret < 0
                THEN encode_apng_return(zs, zs.frame_ret)
                ELSE IF next_candidate(zs, zs.i + 1, failing) < 6
                THEN enter_encode_frame(
                         [zs EXCEPT !.i = next_candidate(zs, zs.i + 1, failing),
                                    !.accepted = @ + 1])
                ELSE encode_apng_return([zs EXCEPT !.accepted = @ + 1], 0)
    /\ UNCHANGED <<avctx, s, call, pkt, env, dec, obs, bl, fl, wr>>

NextDeflate == DeflateRow \/ DeflateFinish \/ FrameEncoded

SpecDeflate == InitDeflate /\ [][NextDeflate]_vars

\* C16: when a deflate call of an encode call has reported a failure, while
\* a row was fed or while the stream was finished, the encode call returns
\* an error and produces no packet.
C16_CompressorFailureIsReturned ==
    (zs.phase = "returned" /\ zs.reported) => (zs.ret < 0 /\ zs.got_packet = 0)

\* what the code does keep: a failure of the finishing call of the frame
\* encoded last is returned
FinishFailureIsReturned ==
    (zs.phase = "returned" /\ zs.frame_ret < 0) => (zs.ret < 0 /\ zs.got_packet = 0)

\* a call returns success although a row's deflate call had failed
RowFailureSwallowed ==
    zs.phase = "returned" /\ zs.reported /\ zs.ret = 0

----------------------------------------------------------------------------
(* SpecChunk: png_write_chunk and png_write_image_data byte by byte        *)

MaxChunks == 2          \* chunks written in one run
MaxPayload == 2         \* bytes of a drawn payload

\* the characters of the tags as C character constants
TagChars(tag) ==
    CASE tag = "IHDR" -> <<73, 72, 68, 82>>
      [] tag = "PLTE" -> <<80, 76, 84, 69>>
      [] tag = "tRNS" -> <<116, 82, 78, 83>>
      [] tag = "IDAT" -> <<73, 68, 65, 84>>
      [] tag = "fdAT" -> <<102, 100, 65, 84>>
      [] tag = "fcTL" -> <<102, 99, 84, 76>>
      [] tag = "IEND" -> <<73, 69, 78, 68>>

\* MKTAG(a, b, c, d) = a | b << 8 | c << 16 | d << 24
MKTAG(c) == c[1] + c[2] * 256 + c[3] * 65536 + c[4] * 16777216

\* MKBETAG(a, b, c, d) = d | c << 8 | b << 16 | a << 24
MKBETAG(c) == c[4] + c[3] * 256 + c[2] * 65536 + c[1] * 16777216

\* AV_WL32(p, v): the four bytes of v, lowest first
AV_WL32(v) ==
    <<v % 256, (v \div 256) % 256, (v \div 65536) % 256, (v \div 16777216) % 256>>

\* AV_WB32(p, v): the four bytes of v, highest first
AV_WB32(v) ==
    <<(v \div 16777216) % 256, (v \div 65536) % 256, (v \div 256) % 256, v % 256>>

av_bswap32(v) == MKBETAG(AV_WL32(v))

\* bytestream_put_be32(f, v): four bytes written, the cursor moved past them
bytestream_put_be32(f, v) == f \o AV_WB32(v)

\* ~crc for a register held as <<high half, low half>>
CrcNot(crc) == <<65535 - crc[1], 65535 - crc[2]>>

\* bytestream_put_be32 of a register held as two halves
bytestream_put_be32_halves(f, crc) ==
    f \o <<crc[1] \div 256, crc[1] % 256, crc[2] \div 256, crc[2] % 256>>

\* png_write_chunk starting the checksum at the length field
png_write_chunk_bytes_crc_length(f, tag, buf, length) ==
    bytestream_put_be32_halves(
        (IF length > 0
         THEN bytestream_put_be32(bytestream_put_be32(f, length), av_bswap32(tag))
              \o SubSeq(buf, 1, length)
         ELSE bytestream_put_be32(bytestream_put_be32(f, length), av_bswap32(tag))),
        CrcNot(IF length > 0
               THEN av_crc(av_crc(<<65535, 65535>>,
                                  AV_WB32(length) \o AV_WL32(tag), 1),
                           SubSeq(buf, 1, length), 1)
               ELSE av_crc(<<65535, 65535>>, AV_WB32(length) \o AV_WL32(tag), 1)))

\* png_write_chunk(f, tag, buf, length): the bytes at the cursor afterwards
png_write_chunk_bytes(f, tag, buf, length) ==
    bytestream_put_be32_halves(
        (IF length > 0
         THEN bytestream_put_be32(bytestream_put_be32(f, length), av_bswap32(tag))
              \o SubSeq(buf, 1, length)
         ELSE bytestream_put_be32(bytestream_put_be32(f, length), av_bswap32(tag))),
        CrcNot(IF length > 0
               THEN av_crc(av_crc(<<65535, 65535>>, AV_WL32(tag), 1),
                           SubSeq(buf, 1, length), 1)
               ELSE av_crc(<<65535, 65535>>, AV_WL32(tag), 1)))

\* lines 255-259: length, tag and sequence number are in the output
fdat_head(f, sequence_number, length) ==
    bytestream_put_be32(
        bytestream_put_be32(bytestream_put_be32(f, length + 4),
                            MKBETAG(TagChars("fdAT"))),
        sequence_number)

\* lines 260-266: the checksum starts from the 8 bytes before the cursor
fdat_tail(head, buf, length) ==
    bytestream_put_be32_halves(
        head \o SubSeq(buf, 1, length),
        CrcNot(av_crc(av_crc(<<65535, 65535>>,
                             SubSeq(head, Len(head) - 7, Len(head)), 1),
                      SubSeq(buf, 1, length), 1)))

\* png_write_image_data(avctx, buf, length): the bytes at the cursor and
\* the sequence number afterwards
png_write_image_data_bytes(w, buf, length) ==
    IF w.codec_id = "AV_CODEC_ID_PNG" \/ w.frame_number = 0
    THEN [w EXCEPT !.out = png_write_chunk_bytes(@, MKTAG(TagChars("IDAT")),
                                                 buf, length)]
    ELSE [w EXCEPT !.out = fdat_tail(fdat_head(@, w.sequence_number, length),
                                     buf, length),
                   !.sequence_number = @ + 1]

\* tags png_write_chunk is called with
ChunkTags == {"IHDR", "fcTL", "IEND"}

\* payloads of up to MaxPayload bytes
ChunkPayloads ==
    UNION { [1..n -> {0, 255}] : n \in 0..MaxPayload }

\* sequence numbers a stream can have reached
ChunkSequenceNumbers == {0, 258, 16909060}

InitChunk ==
    /\ \E codec_id \in {"AV_CODEC_ID_PNG", "AV_CODEC_ID_APNG"} :
       \E frame_number \in {0, 1} :
       \E sequence_number \in ChunkSequenceNumbers :
          wr = [phase |-> "open", codec_id |-> codec_id,
                frame_number |-> frame_number,
                sequence_number |-> sequence_number,
                out |-> << >>, written |-> 0,
                at |-> 0, tag |-> "", payload |-> << >>, seq |-> << >>]
    /\ bl = BlendIdle
    /\ fl = FilterIdle
    /\ zs = DeflateIdle
    /\ avctx = SeqIdle /\ s = SeqIdle /\ call = SeqIdle /\ pkt = SeqIdle
    /\ env = SeqIdle /\ dec = SeqIdle /\ obs = SeqIdle

\* a call of png_write_chunk(&s->bytestream, tag, buf, length)
WriteChunk ==
    /\ wr.phase = "open" /\ wr.written < MaxChunks
    /\ \E tag \in ChunkTags :
       \E buf \in ChunkPayloads :
          wr' = [wr EXCEPT
                   !.out = png_write_chunk_bytes(@, MKTAG(TagChars(tag)),
                                                 buf, Len(buf)),
                   !.written = @ + 1,
                   !.at = Len(wr.out), !.tag = tag, !.payload = buf,
                   !.seq = << >>]
    /\ UNCHANGED <<avctx, s, call, pkt, env, dec, obs, bl, fl, zs>>

\* a call of png_write_image_data(avctx, buf, length)
WriteImageData ==
    /\ wr.phase = "open" /\ wr.written < MaxChunks
    /\ \E buf \in ChunkPayloads :
          wr' = [png_write_image_data_bytes(wr, buf, Len(buf)) EXCEPT
                   !.written = @ + 1,
                   !.at = Len(wr.out),
                   !.tag = IF wr.codec_id = "AV_CODEC_ID_PNG" \/ wr.frame_number = 0
                           THEN "IDAT" ELSE "fdAT",
                   !.payload = buf,
                   !.seq = IF wr.codec_id = "AV_CODEC_ID_PNG" \/ wr.frame_number = 0
                           THEN << >> ELSE <<wr.sequence_number>>]
    /\ UNCHANGED <<avctx, s, call, pkt, env, dec, obs, bl, fl, zs>>

NextChunk == WriteChunk \/ WriteImageData

SpecChunk == InitChunk /\ [][NextChunk]_vars

----------------------------------------------------------------------------
(* Claims about the chunks written (SpecChunk)                             *)

\* the value four bytes spell, highest byte first
BigEndian(b) == b[1] * 16777216 + b[2] * 65536 + b[3] * 256 + b[4]

\* the bytes of the chunk written last
LastChunk == SubSeq(wr.out, wr.at + 1, Len(wr.out))

\* CRC-32 of a byte sequence: register of all ones, reflected polynomial
\* 0xEDB88320, complemented at the end; as four bytes, highest first
Crc32Bytes(bytes) ==
    LET c == CrcNot(av_crc(<<65535, 65535>>, bytes, 1))
    IN  <<c[1] \div 256, c[1] % 256, c[2] \div 256, c[2] % 256>>

\* C17: the chunk written last, by png_write_chunk or by the fdAT path,
\* has a length field equal to its payload byte count (for fdAT the
\* compressed bytes and 4 for the sequence number), its tag, its payload
\* (for fdAT the sequence number first), and a CRC-32 over exactly the tag
\* bytes followed by the payload; the cursor has moved by payload + 12.
C17_ChunkLengthAndCrc ==
    wr.phase = "open" /\ wr.written > 0 =>
        LET n == Len(wr.payload) + 4 * Len(wr.seq)
        IN  /\ Len(LastChunk) = n + 12
            /\ BigEndian(SubSeq(LastChunk, 1, 4)) = n
            /\ SubSeq(LastChunk, 5, 8) = TagChars(wr.tag)
            /\ wr.seq # << >> =>
                   BigEndian(SubSeq(LastChunk, 9, 12)) = wr.seq[1]
            /\ SubSeq(LastChunk, 9 + 4 * Len(wr.seq), 8 + n) = wr.payload
            /\ SubSeq(LastChunk, 9 + n, 12 + n)
                   = Crc32Bytes(SubSeq(LastChunk, 5, 8 + n))

\* an fdAT chunk with a payload has been written after an IEND chunk, whose
\* twelve bytes are the well-known ones
C17_Witness ==
    /\ wr.phase = "open" /\ wr.written = 2
    /\ wr.tag = "fdAT" /\ wr.seq = <<258>> /\ wr.payload = <<255, 0>>
    /\ SubSeq(wr.out, 1, 12) = <<0, 0, 0, 0, 73, 69, 78, 68, 174, 66, 96, 130>>
    /\ SubSeq(wr.out, 13, 24) = <<0, 0, 0, 6, 102, 100, 65, 84, 0, 0, 1, 2>>
    /\ wr.sequence_number = 259

----------------------------------------------------------------------------
(* Claims about the dispose/blend search (Spec)                            *)

\* the last call searched the pairs for a frame after frame 0 and returned 0
SearchDone == call.op = "frame" /\ obs.ret = 0 /\ call.tried # << >>

\* the passes of the last search that were not skipped
Encoded == { k \in 1..Len(call.tried) : ~call.tried[k].skipped }

\* The committed pair: the dispose_op is in the fcTL of the packet that
\* leaves (the frame before), the blend_op in the fcTL held for this frame.
Committed(k) ==
    /\ k \in Encoded
    /\ DisposeOf(call.tried[k].pair) = pkt.data[1].data.dispose_op
    /\ BlendOf(call.tried[k].pair) = s.last_frame_fctl.blend_op

\* C18: for a frame after frame 0 the committed pair is one whose encoded
\* size is the least among the candidates not skipped, the first such in
\* the search order, and the held packet has that size after the fcTL slot.
C18_WinnerIsFirstSmallest ==
    SearchDone =>
        /\ [k \in 1..Len(call.tried) |-> call.tried[k].pair] = <<1, 2, 3, 4, 5, 6>>
        /\ pkt.data[1].tag = "fcTL"
        /\ \E k \in Encoded :
              /\ Committed(k)
              /\ \A j \in Encoded :
                    /\ call.tried[k].size <= call.tried[j].size
                    /\ call.tried[j].size = call.tried[k].size => k <= j
              /\ s.last_frame_packet_size = 26 + 12 + call.tried[k].size

\* a later pair won by being strictly smaller than the first, and a pair
\* after it came out at the same size as the winner
C18_Witness ==
    /\ SearchDone
    /\ \E k \in Encoded :
          /\ k > 1 /\ Committed(k)
          /\ call.tried[k].size < call.tried[1].size
          /\ \E j \in Encoded : j > k /\ call.tried[j].size = call.tried[k].size

\* C19: every candidate of the search is encoded into a buffer other than
\* the one that holds the champion of that moment, passes skipped before
\* it or not; after the commit the packet area after the fcTL slot holds
\* the bytes of the winner, the cursor stands right after them and the end
\* is the end of the packet area again.
C19_ChampionIsNeverOverwritten ==
    SearchDone =>
        /\ \A k \in Encoded :
              /\ call.tried[k].into.buf # call.tried[k].champion.buf
              /\ call.tried[k].into.buf \in {"last_frame_packet", "temp_bytestream"}
        /\ \E k \in Encoded :
              /\ Committed(k)
              /\ WrittenAt(s, [buf |-> "last_frame_packet", pos |-> 26 + 12],
                           call.tried[k].size) = call.tried[k].bytes
              /\ call.tried[k].bytes # << >>
              /\ s.bytestream = [buf |-> "last_frame_packet",
                                 pos |-> 26 + 12 + call.tried[k].size]
        /\ s.bytestream_end = [buf |-> "last_frame_packet",
                               pos |-> max_packet_size(avctx)]
        /\ s.temp_bytestream = << >>

\* the winner was encoded into the temporary buffer, after a champion in
\* the packet area and a pass that was skipped, and was copied over
C19_Witness ==
    /\ SearchDone
    /\ \E k \in Encoded :
          /\ Committed(k)
          /\ call.tried[k].into.buf = "temp_bytestream"
          /\ call.tried[k].champion.buf = "last_frame_packet"
          /\ \E j \in 1..(k - 1) : call.tried[j].skipped
          /\ \E j \in Encoded : j > k /\ call.tried[j].into.buf = "last_frame_packet"

\* C20: in a search that returned success the pair (NONE, SOURCE) was the
\* first pass and was not skipped, so every later pass found a champion
\* assigned, and size, buffer and sequence number were assigned before the
\* commit read them.
C20_FirstPairIsAlwaysAccepted ==
    SearchDone =>
        /\ call.tried[1].pair = 1
        /\ DisposeOf(1) = APNG_DISPOSE_OP_NONE /\ BlendOf(1) = APNG_BLEND_OP_SOURCE
        /\ ~call.tried[1].skipped
        /\ call.tried[1].champion = NullPtr
        /\ \A k \in Encoded \ {1} : call.tried[k].champion # NullPtr
        /\ s.sequence_number > 0
        /\ s.last_frame_packet_size < SIZE_MAX
        /\ s.bytestream.pos < SIZE_MAX

\* a search in which every pass but two was skipped: no frame to go back
\* to, and no OVER blend for the format
C20_Witness ==
    /\ SearchDone
    /\ avctx.frame_number = 2
    /\ Encoded = {1, 3}

----------------------------------------------------------------------------
(* Claims about the frame-control records (Spec)                           *)

\* the pass of the last search that won: the first of the least size
WinningPass ==
    CHOOSE k \in Encoded :
        \A j \in Encoded :
            \/ call.tried[k].size < call.tried[j].size
            \/ (call.tried[k].size = call.tried[j].size /\ k <= j)

\* blend_op, offsets and dimensions of a frame-control record
Placement(f) == <<f.blend_op, f.x_offset, f.y_offset, f.width, f.height>>

\* C21: after a successful call with a frame, last_frame_fctl holds for
\* frame 0 the whole raster at (0, 0) with blend SOURCE, and for a later
\* frame the blend_op, offsets and dimensions inverse blending returned for
\* the winning pass.
C21_HeldFctlIsTheWinners ==
    FrameAccepted =>
        IF call.tried = << >>
        THEN /\ avctx.frame_number = 1
             /\ Placement(s.last_frame_fctl)
                    = <<APNG_BLEND_OP_SOURCE, 0, 0,
                        call.pict.width, call.pict.height>>
        ELSE Placement(s.last_frame_fctl)
                 = Placement(call.tried[WinningPass].fctl_chunk)

\* the winner was followed by a pass that lost with another rectangle
C21_Witness ==
    /\ FrameAccepted /\ call.tried # << >>
    /\ \E j \in Encoded :
          /\ j > WinningPass
          /\ Placement(call.tried[j].fctl_chunk)
                 # Placement(call.tried[WinningPass].fctl_chunk)
          /\ call.tried[j].fctl_chunk.width # call.tried[WinningPass].fctl_chunk.width
    /\ call.tried[Len(call.tried)].skipped

\* C22: the fcTL that leaves with a packet is the record held since the
\* call of its frame, sequence number, dimensions, offsets and blend_op
\* untouched, with the dispose_op of the winning pass of the call that
\* emits it, or NONE when the call is the flush.
C22_CommitChangesDisposeOnly ==
    [][ obs'.got_packet = 1 =>
          /\ pkt'.data[1].tag = "fcTL"
          /\ [pkt'.data[1].data EXCEPT !.dispose_op = 0]
                 = [s.last_frame_fctl EXCEPT !.dispose_op = 0]
          /\ call'.op = "null" =>
                 pkt'.data[1].data.dispose_op = APNG_DISPOSE_OP_NONE
          /\ call'.op = "frame" =>
                 pkt'.data[1].data.dispose_op
                     = DisposeOf(call'.tried[WinningPass'].pair) ]_vars

\* the fcTL of a frame after frame 0, placed off the origin, leaves with
\* the disposal BACKGROUND
C22_Witness ==
    /\ SearchDone
    /\ pkt.data[1].data.dispose_op = APNG_DISPOSE_OP_BACKGROUND
    /\ pkt.data[1].data.sequence_number > 0
    /\ pkt.data[1].data.x_offset > 0

\* pixel (x, y) lies in the rectangle of a frame-control record
InRectangle(f, x, y) ==
    /\ f.x_offset <= x /\ x < f.x_offset + f.width
    /\ f.y_offset <= y /\ y < f.y_offset + f.height

\* the pixels of a raster, those of a rectangle set to zero
ClearedGrid(fr, f) ==
    [p \in PixelGrid(fr) |->
        IF InRectangle(f, p[1], p[2])
        THEN Zeros(apng_bpp(fr.format))
        ELSE PixelAt(fr, p[1], p[2])]

\* the pixels of a raster
Grid(fr) == [p \in PixelGrid(fr) |-> PixelAt(fr, p[1], p[2])]

\* C23: a successful call with frame N+1 leaves in prev_frame raster N when
\* the disposal committed for frame N is NONE, raster N with the rectangle
\* of frame N zeroed when it is BACKGROUND, and what it held before when it
\* is PREVIOUS; last_frame is raster N+1 afterwards.
C23_SnapshotFollowsDisposal ==
    [][ (call'.op = "frame" /\ obs'.ret = 0 /\ s.last_frame # NullFrame) =>
          /\ s'.last_frame = call'.pict
          /\ CASE pkt'.data[1].data.dispose_op = APNG_DISPOSE_OP_NONE ->
                      /\ s'.prev_frame # NullFrame
                      /\ Grid(s'.prev_frame) = Grid(s.last_frame)
               [] pkt'.data[1].data.dispose_op = APNG_DISPOSE_OP_BACKGROUND ->
                      /\ s'.prev_frame # NullFrame
                      /\ Grid(s'.prev_frame)
                             = ClearedGrid(s.last_frame, s.last_frame_fctl)
               [] pkt'.data[1].data.dispose_op = APNG_DISPOSE_OP_PREVIOUS ->
                      s'.prev_frame = s.prev_frame ]_vars

\* BACKGROUND was committed for a frame whose rectangle is not the whole
\* raster and whose raster differs from the one coming in
C23_Witness ==
    /\ SearchDone
    /\ pkt.data[1].data.dispose_op = APNG_DISPOSE_OP_BACKGROUND
    /\ pkt.data[1].data.width < avctx.width
    /\ s.prev_frame # NullFrame
    /\ Grid(s.prev_frame) # Grid(s.last_frame)
    /\ \E p \in PixelGrid(s.prev_frame) :
          PixelAt(s.prev_frame, p[1], p[2]) # Zeros(apng_bpp(s.prev_frame.format))

\* C24: a packet leaves with dispose_op PREVIOUS only from a call with a
\* frame that found a prev_frame to search with; the first packet of a
\* stream, frame 0's, never does.
C24_PreviousNeedsSnapshot ==
    [][ (obs'.got_packet = 1
         /\ pkt'.data[1].data.dispose_op = APNG_DISPOSE_OP_PREVIOUS) =>
          /\ call'.op = "frame"
          /\ s.prev_frame # NullFrame
          /\ obs.packets >= 1
          /\ pkt'.data[1].data.sequence_number > 0 ]_vars

\* PREVIOUS has been committed for a frame
C24_Witness ==
    /\ SearchDone
    /\ pkt.data[1].data.dispose_op = APNG_DISPOSE_OP_PREVIOUS
    /\ obs.packets = 2

----------------------------------------------------------------------------
(* Claims about the OVER branch of apng_do_inverse_blend (SpecBlend)       *)

\* alpha of a pixel at its maximum: the pixel is fully opaque
PixelOpaque(format, px, palette) ==
    CASE format = "RGBA64BE" -> px[7] = 255 /\ px[8] = 255
      [] format = "YA16BE" -> px[3] = 255 /\ px[4] = 255
      [] format = "RGBA" -> px[4] = 255
      [] format = "GRAY8A" -> px[2] = 255
      [] format = "PAL8" -> PaletteAlpha(palette, px[1]) = 255
      [] OTHER -> TRUE

\* the pixels of the bounding rectangle of the pixels in which foreground
\* and background differ; the pixel at the origin when none differs
BoundingPixels(F, B) ==
    IF DiffPixels(F, B) = {}
    THEN {<<0, 0>>}
    ELSE { p \in PixelGrid(F) :
             /\ \E q \in DiffPixels(F, B) : q[1] <= p[1]
             /\ \E q \in DiffPixels(F, B) : q[1] >= p[1]
             /\ \E q \in DiffPixels(F, B) : q[2] <= p[2]
             /\ \E q \in DiffPixels(F, B) : q[2] >= p[2] }

\* the three ways inverse blending under OVER fails
OverFails(F, B) ==
    \/ F.format \notin {"RGBA64BE", "YA16BE", "RGBA", "GRAY8A", "PAL8"}
    \/ /\ F.format = "PAL8"
       /\ \A i \in 0..(PaletteSize - 1) : PaletteAlpha(F.palette, i) # 0
       /\ \E p \in BoundingPixels(F, B) :
             PixelAt(F, p[1], p[2]) = PixelAt(B, p[1], p[2])
    \/ \E p \in BoundingPixels(F, B) :
          /\ PixelAt(F, p[1], p[2]) # PixelAt(B, p[1], p[2])
          /\ ~PixelOpaque(F.format, PixelAt(F, p[1], p[2]), F.palette)
          /\ ~PixelTransparent(F.format, PixelAt(B, p[1], p[2]), F.palette)

\* what the sub-image holds for pixel p of the rectangle
EmittedFor(p) ==
    PixelAt(bl.result,
            p[1] - SetMin({q[1] : q \in BoundingPixels(bl.input, bl.output)}),
            p[2] - SetMin({q[2] : q \in BoundingPixels(bl.input, bl.output)}))

\* C25: under OVER inverse blending fails exactly for a format without
\* alpha, for a palette without a fully transparent entry when a pixel of
\* the rectangle is unchanged, and for a changed pixel whose foreground is
\* not opaque over a background that is not transparent; when it succeeds
\* the sub-image has a transparent pixel for every unchanged pixel of the
\* rectangle and the foreground pixel for every changed one.
C25_OverFailsExactlyWhenStated ==
    (bl.phase = "done" /\ bl.blend_op = APNG_BLEND_OP_OVER) =>
        /\ bl.ret < 0 <=> OverFails(bl.input, bl.output)
        /\ bl.ret = 0 =>
              \A p \in BoundingPixels(bl.input, bl.output) :
                 IF PixelAt(bl.input, p[1], p[2]) = PixelAt(bl.output, p[1], p[2])
                 THEN IF bl.input.format = "PAL8"
                      THEN PaletteAlpha(bl.input.palette, EmittedFor(p)[1]) = 0
                      ELSE EmittedFor(p) = Zeros(apng_bpp(bl.input.format))
                 ELSE EmittedFor(p) = PixelAt(bl.input, p[1], p[2])

\* OVER succeeded on a rectangle with an unchanged pixel and with a changed
\* pixel whose foreground is not opaque
C25_Witness ==
    /\ bl.phase = "done" /\ bl.blend_op = APNG_BLEND_OP_OVER /\ bl.ret = 0
    /\ \E p \in BoundingPixels(bl.input, bl.output) :
          PixelAt(bl.input, p[1], p[2]) = PixelAt(bl.output, p[1], p[2])
    /\ \E p \in BoundingPixels(bl.input, bl.output) :
          /\ PixelAt(bl.input, p[1], p[2]) # PixelAt(bl.output, p[1], p[2])
          /\ ~PixelOpaque(bl.input.format, PixelAt(bl.input, p[1], p[2]),
                          bl.input.palette)

----------------------------------------------------------------------------
(* Claims about the image data of both codecs (SpecCodecs)                 *)

\* the image-data chunks among the entries of a buffer, in order
ImageData(chunks) ==
    LET IsData(c) == c.tag \in {"IDAT", "fdAT"}
    IN  SelectSeq(chunks, IsData)

\* every chunk of d is an IDAT without a sequence number
AllIDAT(d) ==
    \A k \in 1..Len(d) : d[k].tag = "IDAT" /\ d[k].sequence_number = NoSeq

\* every chunk of d is an fdAT, numbered from "first" on without a gap
AllFdATFrom(d, first) ==
    \A k \in 1..Len(d) :
        d[k].tag = "fdAT" /\ d[k].sequence_number = <<first + k - 1>>

\* C26: the image data of a still PNG and of frame 0 of an APNG stream are
\* IDAT chunks, which carry no sequence number and leave the counter alone;
\* the image data of a later APNG frame are fdAT chunks numbered one by one
\* from the number after the frame's fcTL, the counter ending one past the
\* last of them.
C26_IDATThenFdAT ==
    /\ obs.got_packet = 1 =>
          /\ ImageData(pkt.data) # << >>
          /\ IF avctx.codec_id = "AV_CODEC_ID_PNG"
             THEN AllIDAT(ImageData(pkt.data)) /\ s.sequence_number = 0
             ELSE IF pkt.data[1].data.sequence_number = 0
             THEN AllIDAT(ImageData(pkt.data))
             ELSE AllFdATFrom(ImageData(pkt.data),
                              pkt.data[1].data.sequence_number + 1)
    /\ FrameAccepted =>
          LET held == ImageData(HeldData(s.last_frame_packet,
                                         s.last_frame_packet_size))
          IN  /\ held # << >>
              /\ IF avctx.frame_number = 1
                 THEN AllIDAT(held) /\ s.sequence_number = 1
                 ELSE /\ AllFdATFrom(held, s.last_frame_fctl.sequence_number + 1)
                      /\ s.sequence_number
                             = s.last_frame_fctl.sequence_number + 1 + Len(held)

\* a packet of an APNG stream leaves with more than one fdAT chunk
C26_Witness ==
    /\ avctx.codec_id = "AV_CODEC_ID_APNG" /\ obs.got_packet = 1
    /\ Len(ImageData(pkt.data)) >= 2
    /\ ImageData(pkt.data)[1].tag = "fdAT"
    /\ obs.packets = 2

----------------------------------------------------------------------------
(* Claims about the output cursor and the compressor's state (SpecDeflate) *)

\* C27: an image-data chunk is written only while the room left in the
\* buffer written into exceeds the chunk's payload by more than 100 bytes,
\* and at every point of a frame encode, the candidates of the search
\* included, the cursor is at or before the end of that buffer.
C27_CursorStaysInsideBuffer ==
    /\ zs.room >= 0
    /\ zs.len > 0 =>
          (zs.room + zs.len + ImageDataOverhead(zs)) - zs.len > 100

\* a candidate of the search has written chunks and then had a block
\* declined for lack of room
C27_Witness ==
    /\ zs.phase = "encoded" /\ zs.frame_number > 0 /\ zs.accepted >= 1
    /\ zs.len = IOBUF_SIZE /\ zs.dropped
    /\ zs.room <= IOBUF_SIZE + 100

\* C29: encode_frame is always entered with the compressor in its reset
\* state, for every frame and every candidate of the search, and leaves it
\* reset on every way out, whether it returns success or an error.
C29_CompressorIsResetBetweenEncodes ==
    /\ zs.entered = "reset"
    /\ zs.phase \in {"encoded", "returned"} => zs.zstream = "reset"
    /\ zs.phase \in {"rows", "finish"} /\ zs.zstream = "reset" =>
          zs.y = 0 /\ zs.row_calls = 0 /\ zs.phase = "rows"

\* a candidate of the search is entered after a candidate whose compressor
\* reported a failure while a row was fed
C29_Witness ==
    /\ zs.phase = "rows" /\ zs.y = 0 /\ zs.row_calls = 0
    /\ zs.accepted >= 1 /\ zs.reported
    /\ zs.entered = "reset" /\ zs.zstream = "reset"

----------------------------------------------------------------------------
(* Claims about the chunks of a compressed stream (SpecCodecs)             *)

\* the payloads of the image-data chunks d, one after the other, are the
\* whole of one compressed stream
CoversStream(d) ==
    /\ d # << >>
    /\ d[1].data.from = 0
    /\ d[Len(d)].data.to = d[Len(d)].data.zlen
    /\ \A k \in 1..(Len(d) - 1) :
          /\ d[k + 1].data.from = d[k].data.to
          /\ d[k + 1].data.zlen = d[k].data.zlen
          /\ d[k + 1].data.image = d[k].data.image

\* the chunks before the last carry a full buffer, the last one what was
\* left of the stream
BlockSizes(d) ==
    \A k \in 1..Len(d) :
        LET n == d[k].data.to - d[k].data.from
        IN  /\ d[k].length = n + (IF d[k].tag = "fdAT" THEN 4 ELSE 0)
            /\ n >= 1 /\ n <= IOBUF_SIZE
            /\ k < Len(d) => n = IOBUF_SIZE

\* C28: with the buffer of the budgeted size the image-data chunks of a
\* frame carry the whole compressed stream, every byte once and in the
\* order of production, in chunks of 4096 bytes followed by a last chunk
\* of 1 to 4096 bytes; the capacity guard drops nothing.
C28_WholeStreamIsWritten ==
    /\ obs.got_packet = 1 =>
          /\ CoversStream(ImageData(pkt.data))
          /\ BlockSizes(ImageData(pkt.data))
    /\ FrameAccepted =>
          /\ CoversStream(ImageData(HeldData(s.last_frame_packet,
                                             s.last_frame_packet_size)))
          /\ BlockSizes(ImageData(HeldData(s.last_frame_packet,
                                           s.last_frame_packet_size)))

\* a still image leaves in a full chunk followed by a shorter one
C28_Witness ==
    /\ avctx.codec_id = "AV_CODEC_ID_PNG" /\ obs.got_packet = 1
    /\ Len(ImageData(pkt.data)) >= 2
    /\ ImageData(pkt.data)[1].length = IOBUF_SIZE
    /\ ImageData(pkt.data)[Len(ImageData(pkt.data))].length = TailLength

----------------------------------------------------------------------------
(* Claims about the Paeth filter (SpecFilter)                              *)

\* the first of a, b, c that is nearest to a + b - c
FirstNearest(a, b, c) ==
    LET p == a + b - c
        m == Min(Abs(p - a), Min(Abs(p - b), Abs(p - c)))
    IN  IF Abs(p - a) = m THEN a
        ELSE IF Abs(p - b) = m THEN b
        ELSE c

\* byte i (from 0) of the PAETH-filtered row for src over top
PaethByte(src, top, bpp, i) ==
    LET a == IF i < bpp THEN 0 ELSE src[i + 1 - bpp]
        b == top[i + 1]
        c == IF i < bpp THEN 0 ELSE top[i + 1 - bpp]
    IN  (src[i + 1] - FirstNearest(a, b, c)) % 256

\* the rows handed over with the PAETH control byte
PaethRows ==
    {k \in 1..Len(fl.out) : fl.out[k].crow[1] = PNG_FILTER_VALUE_PAETH}

\* C30: every byte of a row filtered with PAETH over a present top row is
\* the source byte minus, modulo 256, the first of a, b, c nearest to
\* a + b - c, with a and c taken as 0 in the first bpp bytes; the row
\* [10, 10] over [10, 10] with bpp = 1 has 0 at index 1.
C30_PaethPicksFirstNearest ==
    /\ \A k \in PaethRows :
          /\ fl.out[k].top # NoTop
          /\ \A i \in 0..(Len(fl.out[k].crow) - 2) :
                fl.out[k].crow[i + 2]
                    = PaethByte(fl.out[k].src, fl.out[k].top,
                                fl.bits_per_pixel \div 8, i)
    /\ png_filter_row(PNG_FILTER_VALUE_PAETH, <<10, 10>>, <<10, 10>>, 2, 1)[2]
           = 0

\* a row was filtered with PAETH at a byte where the left neighbour is not
\* the one picked and the other two differ
C30_Witness ==
    \E k \in PaethRows :
    \E i \in (fl.bits_per_pixel \div 8)..(Len(fl.out[k].crow) - 2) :
        LET bpp == fl.bits_per_pixel \div 8
            a == fl.out[k].src[i + 1 - bpp]
            b == fl.out[k].top[i + 1]
            c == fl.out[k].top[i + 1 - bpp]
        IN  /\ FirstNearest(a, b, c) # a
            /\ b # c
            /\ fl.filter_type = PNG_FILTER_VALUE_PAETH

====
